---- MODULE Spec2Model ----
(***************************************************************************)
(* Verification model of the AI-Academy dashboard logic layer:             *)
(*   - the readiness engine (calculateTaskForceReadiness) and the program  *)
(*     calendar it reads (getCurrentProgramDay, getExpectedReadiness),     *)
(*   - the mastery threshold evaluator (calculateNewLevel) and the         *)
(*     read-evaluate-write applications of a level-up by browser tabs      *)
(*     (useMastery) and by the cron sweep,                                 *)
(*   - the live-session sync: the student view (useLiveSession +           *)
(*     StudentSessionView) and the hook of either role,                    *)
(*   - the scheduled mastery and recognition sweeps,                       *)
(*   - the content route with its in-memory cache,                         *)
(*   - the intel-drop notification.                                        *)
(* Each subsystem has its own specification over its own variables; the    *)
(* variables of the other subsystems stay at their idle values.            *)
(***************************************************************************)
EXTENDS Integers, Sequences, FiniteSets, TLC

VARIABLES
    \* ---- readiness engine (pure function, inputs and result) ----
    members,            \* MemberMastery[] handed to calculateTaskForceReadiness
    previousReadiness,  \* optional argument, None when not supplied
    diffDays,           \* whole days between PROGRAM_START and the clock
    result,             \* Some(the TaskForceReadiness returned), None before the call
    \* ---- mastery threshold evaluator (pure function, input and results) ----
    record,             \* the mastery record handed to calculateNewLevel
    cronLevelUp,        \* Some(result of the cron route's calculateNewLevel), None before the call
    hookLevelUp,        \* Some(result of useMastery's calculateNewLevel), None before the call
    \* ---- applying a level-up: participant_mastery row, browser tabs, cron sweep ----
    row,                \* the participant_mastery row of one participant
    tabs,               \* per tab: mastery (useState), the mastery captured by checkForLevelUp, pc
    cron,               \* the sweep: pc and the record it fetched
    grown,              \* number of times the counters advanced
    applied,            \* history: the highest level-up written so far, with the record it was evaluated on
    \* ---- live session: one StudentSessionView with its useLiveSession hook ----
    session,            \* the session prop: the live_sessions row read when the page was rendered
    serverActive,       \* live_sessions.is_active as stored now
    sessionState,       \* useLiveSession state: None (null) or Some(SessionState)
    isConnected,        \* useLiveSession state
    isSyncPaused,       \* StudentSessionView state
    localStep,          \* StudentSessionView state
    localSection,       \* StudentSessionView state
    closure,            \* sessionState and isSyncPaused as captured by the handlers of the current channel
    channel,            \* "joining", "fetching" (SUBSCRIBED, initial fetch awaited), "subscribed", "closed"
    view,               \* "mounted", "leaving" (onSessionEnd pushed the route), "unmounted"
    lastAction,         \* history: "rejoinSync", "resumeSync" or "other", the handler that ran last
    \* ---- program calendar (getCurrentProgramDay, getExpectedReadiness) ----
    clockDays,          \* whole days between PROGRAM_START and the clock (diffDays)
    today,              \* Some(the day getCurrentProgramDay returned), None before the call
    expected,           \* Some([programDay, target]) of a getExpectedReadiness call, None before it
    \* ---- live session: one useLiveSession hook of either role ----
    isInstructor,       \* the isInstructor option of the hook
    hookStatus,         \* current channel: "joining", "failed" (CHANNEL_ERROR before SUBSCRIBED), "subscribed", "dropped" (CHANNEL_ERROR after it)
    channelRef,         \* channelRef.current is set
    hookPending,        \* the awaited fetch of the subscribe callback: "none", "state", "participants"
    hookSessionState,   \* sessionState of this hook: None (null) or Some(SessionState)
    hookClosure,        \* the sessionState captured by the handlers of the current channel
    participants,       \* participants of this hook, a list of ids
    hookConnected,      \* isConnected of this hook
    hookOp,             \* the handler that ran in the last step
    outbox,             \* the event of the broadcast the last step sent on the channel, None if it sent none
    received,           \* history: the state_update payload the last step handled, None otherwise
    \* ---- scheduled sweeps: the mastery-update and recognition cron endpoints ----
    cronSecret,         \* process.env.CRON_SECRET: None when unset, Some(string) otherwise
    authHeader,         \* the request's authorization header: None when absent
    endpoint,           \* "mastery" or "recognition": the route the request is sent to
    sweepPc,            \* position of the handler: "idle", "fetching", "loop", "types", "award", "done"
    participantMastery, \* the participant_mastery table, one row per participant id
    masteryRecords,     \* Some(the rows the sweep fetched), None before the fetch
    sweepIdx,           \* index of the record (or recognition category) processed next
    updates,            \* the updates list of the mastery sweep
    failedUpdates,      \* history: ids of the records whose update returned an error
    recognitionTypes,   \* codes present in the recognition_types table
    candidates,         \* per recognition code, the participants its query finds
    recognitions,       \* the participant_recognitions table: pairs <<participant, code>>
    results,            \* the results object of the recognition sweep
    response,           \* Some(the JSON response), None while the handler runs
    touched,            \* history: "none", "read" or "written": what the handler did to the tables
    \* ---- content route: the per-day content lookup with its in-memory cache ----
    contentCache,       \* contentCache: per key None or Some([data, age]), age = Date.now() - timestamp in minutes
    contentPc,          \* "idle", or "lookup" while a request that missed the cache consults the sources
    contentRequest,     \* the request handled last: [id, isAdmin]
    offered,            \* history: what the sources held when the last lookup consulted them
    consulted,          \* history: the sources the last request consulted, in order
    contentResponse,    \* Some(the response to the last request), None while it is handled
    soloCache,          \* the cache as it would be had only the non-admin requests been made
    soloResponse,       \* the response the last non-admin request would get in that case
    \* ---- intel drops: one IntelDropNotification component ----
    userTaskForce,      \* the userTaskForce prop: None when null or undefined
    intelEvent,         \* the realtime event delivered: "none" before it, then "UPDATE", "INSERT" or "broadcast"
    handed,             \* history: the drops the event passed to handleNewIntel
    toasts,             \* history: the drops of the event that were notified (toast and onNewIntel)
    \* ---- program-wide aggregate (pure function, inputs and result) ----
    teams,              \* the member lists of the task forces, one calculateTaskForceReadiness call each
    programClock,       \* whole days from PROGRAM_START to now at the time of the calls
    program,            \* None before the call, Some(returned object) after
    \* ---- heartbeat timers: one instance of useLiveSession or usePresence ----
    timerHook,          \* which hook the instance is: "useLiveSession" or "usePresence"
    effectActive,       \* TRUE from a run of the subscription effect until its cleanup
    effectRuns,         \* how many times the effect has run
    timerStatus,        \* the current channel: "joining", "subscribed", "errored", "timedOut", "closed"
    awaiting,           \* SUBSCRIBED callbacks suspended at their await (fetches, or track)
    intervals,          \* the ids of the intervals set and not cleared
    heartbeatRef,       \* heartbeatIntervalRef.current / heartbeatRef.current: None for null
    issued,             \* how many ids setInterval has returned
    \* ---- offline briefing cache: one useOfflineBriefing instance ----
    cachedDays,         \* the cachedDays state: CachedDay entries
    localStore,         \* localStorage['offline-cached-days']: None when absent, else Some(list)
    batch,              \* the running cacheMultipleDays call, None when there is none
    completed,          \* history: the cacheMultipleDays call that returned in the last step
    \* ---- recognition awards: participant_recognitions under two runs of the sweep ----
    qualifying,         \* per recognition code, the participants its find* query returns
    awardRows,          \* participant_recognitions: the number of rows per (participant, code)
    runs,               \* per run of the sweep: position, remaining candidates, results
    \* ---- intel releases: the intel_drops table, the admin page and one client ----
    intelTable,         \* intel_drops: per id, absent / draft / released and the targeting
    replicaFull,        \* whether payload.old of an UPDATE carries the old row's columns
    allIntelDrops,      \* the admin page's list: per id, the is_released it last fetched
    wire,               \* realtime events on their way to the client
    clientTaskForce,    \* the client's task force (None: not a participant)
    notified,           \* per id, the notifications the client has shown
    releasedTimes,      \* per id, how often the drop became released
    delivered,          \* the event handled last and the drops it notified
    \* ---- leaderboard: the list under realtime deltas ----
    data,               \* the Leaderboard component's list
    lastDelta           \* the event handled last and the list before it

\* null / undefined role or label
NULL == "null"
\* an optional value: None when null or undefined, Some(v) otherwise
None == <<>>
Some(v) == <<v>>

readinessVars == <<members, previousReadiness, diffDays, result>>
levelVars == <<record, cronLevelUp, hookLevelUp>>
masteryVars == <<row, tabs, cron, grown, applied>>
liveVars == <<session, serverActive, sessionState, isConnected, isSyncPaused, localStep,
              localSection, closure, channel, view, lastAction>>
calendarVars == <<clockDays, today, expected>>
hookVars == <<isInstructor, hookStatus, channelRef, hookPending, hookSessionState, hookClosure,
              participants, hookConnected, hookOp, outbox, received>>
sweepVars == <<cronSecret, authHeader, endpoint, sweepPc, participantMastery, masteryRecords,
               sweepIdx, updates, failedUpdates, recognitionTypes, candidates, recognitions,
               results, response, touched>>
contentVars == <<contentCache, contentPc, contentRequest, offered, consulted, contentResponse, soloCache, soloResponse>>
intelVars == <<userTaskForce, intelEvent, handed, toasts>>
programVars == <<teams, programClock, program>>
timerVars == <<timerHook, effectActive, effectRuns, timerStatus, awaiting, intervals, heartbeatRef, issued>>
offlineVars == <<cachedDays, localStore, batch, completed>>
awardVars == <<qualifying, awardRows, runs>>
releaseVars == <<intelTable, replicaFull, allIntelDrops, wire, clientTaskForce, notified, releasedTimes, delivered>>
leaderboardVars == <<data, lastDelta>>
vars == <<readinessVars, levelVars, masteryVars, liveVars, calendarVars, hookVars, sweepVars, contentVars, intelVars, programVars, timerVars, offlineVars, awardVars, releaseVars, leaderboardVars>>

\* the variables of the other subsystems, left alone by the actions of one
otherThanReadiness == <<levelVars, masteryVars, liveVars, calendarVars, hookVars, sweepVars, contentVars, intelVars, programVars, timerVars, offlineVars, awardVars, releaseVars, leaderboardVars>>
otherThanLevel == <<readinessVars, masteryVars, liveVars, calendarVars, hookVars, sweepVars, contentVars, intelVars, programVars, timerVars, offlineVars, awardVars, releaseVars, leaderboardVars>>
otherThanMastery == <<readinessVars, levelVars, liveVars, calendarVars, hookVars, sweepVars, contentVars, intelVars, programVars, timerVars, offlineVars, awardVars, releaseVars, leaderboardVars>>
otherThanLive == <<readinessVars, levelVars, masteryVars, calendarVars, hookVars, sweepVars, contentVars, intelVars, programVars, timerVars, offlineVars, awardVars, releaseVars, leaderboardVars>>
otherThanCalendar == <<readinessVars, levelVars, masteryVars, liveVars, hookVars, sweepVars, contentVars, intelVars, programVars, timerVars, offlineVars, awardVars, releaseVars, leaderboardVars>>
otherThanHook == <<readinessVars, levelVars, masteryVars, liveVars, calendarVars, sweepVars, contentVars, intelVars, programVars, timerVars, offlineVars, awardVars, releaseVars, leaderboardVars>>
otherThanSweep == <<readinessVars, levelVars, masteryVars, liveVars, calendarVars, hookVars, contentVars, intelVars, programVars, timerVars, offlineVars, awardVars, releaseVars, leaderboardVars>>
otherThanContent == <<readinessVars, levelVars, masteryVars, liveVars, calendarVars, hookVars, sweepVars, intelVars, programVars, timerVars, offlineVars, awardVars, releaseVars, leaderboardVars>>
otherThanIntel == <<readinessVars, levelVars, masteryVars, liveVars, calendarVars, hookVars, sweepVars, contentVars, programVars, timerVars, offlineVars, awardVars, releaseVars, leaderboardVars>>
otherThanProgram == <<readinessVars, levelVars, masteryVars, liveVars, calendarVars, hookVars, sweepVars, contentVars, intelVars, timerVars, offlineVars, awardVars, releaseVars, leaderboardVars>>
otherThanTimer == <<readinessVars, levelVars, masteryVars, liveVars, calendarVars, hookVars, sweepVars, contentVars, intelVars, programVars, offlineVars, awardVars, releaseVars, leaderboardVars>>
otherThanOffline == <<readinessVars, levelVars, masteryVars, liveVars, calendarVars, hookVars, sweepVars, contentVars, intelVars, programVars, timerVars, awardVars, releaseVars, leaderboardVars>>
otherThanAward == <<readinessVars, levelVars, masteryVars, liveVars, calendarVars, hookVars, sweepVars, contentVars, intelVars, programVars, timerVars, offlineVars, releaseVars, leaderboardVars>>
otherThanRelease == <<readinessVars, levelVars, masteryVars, liveVars, calendarVars, hookVars, sweepVars, contentVars, intelVars, programVars, timerVars, offlineVars, awardVars, leaderboardVars>>
otherThanLeaderboard == <<readinessVars, levelVars, masteryVars, liveVars, calendarVars, hookVars, sweepVars, contentVars, intelVars, programVars, timerVars, offlineVars, awardVars, releaseVars>>

(***************************************************************************)
(* Bounds                                                                  *)
(***************************************************************************)
MaxMembers == 3
MaxDays == 21
MaxArtifacts == 4
MaxTutorSessions == 2
MaxPeerAssists == 3
MaxGrowth == 1
MaxStep == 2
MaxClock == 30
MaxParticipants == 2
MaxSweepRecords == 2
MaxReleased == 2
MaxTeamSize == 2
MaxTaskForces == 2
MaxIntervals == 3
MaxEffectRuns == 2
MaxCacheDay == 3
MaxBatch == 2
MaxAwardees == 1
MaxDrops == 2
MaxInFlight == 2
MaxNotified == 2
MaxUsers == 3
MaxPoints == 2

(***************************************************************************)
(* Readiness engine                                                        *)
(***************************************************************************)
MAX_MASTERY_LEVEL == 4
PROGRAM_DAYS == 25

Roles == {"FDE", "AI-SE", "AI-PM"}
MasteryLevels == 1..MAX_MASTERY_LEVEL
MemberMastery == [role : Roles, mastery_level : MasteryLevels]

\* sequences over S of length 0..n
RECURSIVE SeqsUpTo(_, _)
SeqsUpTo(S, n) ==
    IF n = 0 THEN {<<>>}
    ELSE LET shorter == SeqsUpTo(S, n - 1)
         IN  shorter \cup {Append(s, x) : s \in {t \in shorter : Len(t) = n - 1}, x \in S}

\* values the clock takes relative to PROGRAM_START (one per plateau, and before the start)
ClockSamples == {-1, 0, 3, 10, 20, 24}
\* values a caller passes as previousReadiness
PreviousSamples == {0, 50}

Min(a, b) == IF a < b THEN a ELSE b

getCurrentProgramDay(d) ==
    IF d < 0 THEN 0 ELSE Min(d + 1, PROGRAM_DAYS)

\* the last plateau reached one day late
getExpectedReadiness_late(programDay) ==
    IF programDay <= 0 THEN 0
    ELSE IF programDay >= 25 THEN 100
    ELSE IF programDay <= 3 THEN 25
    ELSE IF programDay <= 10 THEN 50
    ELSE IF programDay <= 21 THEN 75
    ELSE 100

getExpectedReadiness(programDay) ==
    IF programDay <= 0 THEN 0
    ELSE IF programDay >= 25 THEN 100
    ELSE IF programDay <= 3 THEN 25
    ELSE IF programDay <= 10 THEN 50
    ELSE IF programDay <= 20 THEN 75
    ELSE 100

\* Math.floor(num / den), den > 0
MathRound_floor(num, den) == num \div den

\* Math.round(num / den), den > 0: nearest integer, halves go up
MathRound(num, den) == (2 * num + den) \div (2 * den)

\* members.reduce((sum, m) => sum + m.mastery_level, 0)
RECURSIVE SumMastery(_)
SumMastery(ms) ==
    IF ms = <<>> THEN 0 ELSE ms[1].mastery_level + SumMastery(Tail(ms))

\* Math.round((total / (count * MAX_MASTERY_LEVEL)) * 100)
ReadinessPercent(total, count) ==
    MathRound(100 * total, count * MAX_MASTERY_LEVEL)

\* keys of the roleGroups Map, in insertion order (order of first appearance)
RECURSIVE RoleKeys(_, _)
RoleKeys(ms, seen) ==
    IF ms = <<>> THEN seen
    ELSE IF \E i \in 1..Len(seen) : seen[i] = ms[1].role
         THEN RoleKeys(Tail(ms), seen)
         ELSE RoleKeys(Tail(ms), Append(seen, ms[1].role))

\* roleGroups.get(role): the members of that role, in list order
RoleMembers(ms, role) == SelectSeq(ms, LAMBDA m : m.role = role)

\* the entry pushed for one role
RoleEntry(ms, role) ==
    LET roleMembers == RoleMembers(ms, role)
        totalMastery == SumMastery(roleMembers)
    IN  [role             |-> role,
         count            |-> Len(roleMembers),
         totalMastery     |-> totalMastery,
         avgMastery       |-> <<totalMastery, Len(roleMembers)>>,
         readyCount       |-> Len(SelectSeq(roleMembers, LAMBDA m : m.mastery_level >= 3)),
         readinessPercent |-> ReadinessPercent(totalMastery, Len(roleMembers))]

\* roleBreakdown as pushed by roleGroups.forEach, before the sort
UnsortedBreakdown(ms) ==
    LET keys == RoleKeys(ms, <<>>)
    IN  [i \in 1..Len(keys) |-> RoleEntry(ms, keys[i])]

\* lowestRole as tracked in the forEach: first entry strictly below the running minimum
RECURSIVE TrackLowest(_, _, _)
TrackLowest(rb, lowestReadiness, lowestRole) ==
    IF rb = <<>> THEN lowestRole
    ELSE IF rb[1].readinessPercent < lowestReadiness
         THEN TrackLowest(Tail(rb), rb[1].readinessPercent, rb[1].role)
         ELSE TrackLowest(Tail(rb), lowestReadiness, lowestRole)

\* highestRole as tracked in the forEach: first entry strictly above the running maximum
RECURSIVE TrackHighest(_, _, _)
TrackHighest(rb, highestReadiness, highestRole) ==
    IF rb = <<>> THEN highestRole
    ELSE IF rb[1].readinessPercent > highestReadiness
         THEN TrackHighest(Tail(rb), rb[1].readinessPercent, rb[1].role)
         ELSE TrackHighest(Tail(rb), highestReadiness, highestRole)

\* insert e into a list sorted ascending by readinessPercent, after its equals (stable)
RECURSIVE InsertByReadiness(_, _)
InsertByReadiness(sorted, e) ==
    IF sorted = <<>> THEN <<e>>
    ELSE IF e.readinessPercent < sorted[1].readinessPercent
         THEN <<e>> \o sorted
         ELSE <<sorted[1]>> \o InsertByReadiness(Tail(sorted), e)

RECURSIVE SortFrom(_, _)
SortFrom(rb, sorted) ==
    IF rb = <<>> THEN sorted
    ELSE SortFrom(Tail(rb), InsertByReadiness(sorted, rb[1]))

\* the sort left out
SortByReadiness_unsorted(rb) == rb

\* roleBreakdown.sort((a, b) => a.readinessPercent - b.readinessPercent), a stable sort
SortByReadiness(rb) == SortFrom(rb, <<>>)

\* the trend computed with the operands of the subtraction swapped
Trend_swapped(overallReadiness, previous) ==
    IF previous = None THEN [trend |-> "stable", trendValue |-> 0]
    ELSE LET trendValue == previous[1] - overallReadiness
         IN  [trend      |-> IF trendValue > 0 THEN "up"
                             ELSE IF trendValue < 0 THEN "down" ELSE "stable",
              trendValue |-> trendValue]

\* trend and trendValue of the non-empty branch
Trend(overallReadiness, previous) ==
    IF previous = None THEN [trend |-> "stable", trendValue |-> 0]
    ELSE LET trendValue == overallReadiness - previous[1]
         IN  [trend      |-> IF trendValue > 0 THEN "up"
                             ELSE IF trendValue < 0 THEN "down" ELSE "stable",
              trendValue |-> trendValue]

\* the comparison made strict
IsOnTrack_strict(overallReadiness, targetReadiness) == overallReadiness > targetReadiness

\* isOnTrack of the non-empty branch
IsOnTrack(overallReadiness, targetReadiness) == overallReadiness >= targetReadiness

\* the empty branch deriving isOnTrack from the comparison instead of the literal false
EmptyReadiness_compared(d) ==
    [totalMembers      |-> 0,
     overallReadiness  |-> 0,
     roleBreakdown     |-> <<>>,
     trend             |-> "stable",
     trendValue        |-> 0,
     targetReadiness   |-> getExpectedReadiness(getCurrentProgramDay(d)),
     isOnTrack         |-> 0 >= getExpectedReadiness(getCurrentProgramDay(d)),
     members           |-> <<>>,
     lowestRole        |-> NULL,
     highestRole       |-> NULL]

\* the result returned for members.length === 0
EmptyReadiness(d) ==
    [totalMembers      |-> 0,
     overallReadiness  |-> 0,
     roleBreakdown     |-> <<>>,
     trend             |-> "stable",
     trendValue        |-> 0,
     targetReadiness   |-> getExpectedReadiness(getCurrentProgramDay(d)),
     isOnTrack         |-> FALSE,
     members           |-> <<>>,
     lowestRole        |-> NULL,
     highestRole       |-> NULL]

calculateTaskForceReadiness(ms, previous, d) ==
    IF Len(ms) = 0 THEN EmptyReadiness(d)
    ELSE
      LET totalMasterySum  == SumMastery(ms)
          overallReadiness == ReadinessPercent(totalMasterySum, Len(ms))
          pushed           == UnsortedBreakdown(ms)
          tr               == Trend(overallReadiness, previous)
          targetReadiness  == getExpectedReadiness(getCurrentProgramDay(d))
      IN  [totalMembers      |-> Len(ms),
           overallReadiness  |-> overallReadiness,
           roleBreakdown     |-> SortByReadiness(pushed),
           trend             |-> tr.trend,
           trendValue        |-> tr.trendValue,
           targetReadiness   |-> targetReadiness,
           isOnTrack         |-> IsOnTrack(overallReadiness, targetReadiness),
           members           |-> ms,
           lowestRole        |-> TrackLowest(pushed, 101, NULL),
           highestRole       |-> TrackHighest(pushed, -1, NULL)]

(***************************************************************************)
(* Mastery threshold evaluator                                             *)
(***************************************************************************)
\* clearance label of a participant who has not levelled up yet
INITIAL_CLEARANCE == "TRAINEE"

\* the cron route's table with level 2 asking for two tutor sessions
MASTERY_THRESHOLDS_twoSessions ==
    2 :> [daysCompleted |-> 3, aiTutorSessions |-> Some(2), artifactsSubmitted |-> None,
          peerAssistsGiven |-> None, clearance |-> "FIELD_TRAINEE"] @@
    3 :> [daysCompleted |-> 10, aiTutorSessions |-> None, artifactsSubmitted |-> Some(1),
          peerAssistsGiven |-> None, clearance |-> "FIELD_READY"] @@
    4 :> [daysCompleted |-> 20, aiTutorSessions |-> None, artifactsSubmitted |-> Some(3),
          peerAssistsGiven |-> Some(2), clearance |-> "SPECIALIST"]

\* MASTERY_THRESHOLDS of the cron route; a field the table leaves out is None
MASTERY_THRESHOLDS ==
    2 :> [daysCompleted |-> 3, aiTutorSessions |-> Some(1), artifactsSubmitted |-> None,
          peerAssistsGiven |-> None, clearance |-> "FIELD_TRAINEE"] @@
    3 :> [daysCompleted |-> 10, aiTutorSessions |-> None, artifactsSubmitted |-> Some(1),
          peerAssistsGiven |-> None, clearance |-> "FIELD_READY"] @@
    4 :> [daysCompleted |-> 20, aiTutorSessions |-> None, artifactsSubmitted |-> Some(3),
          peerAssistsGiven |-> Some(2), clearance |-> "SPECIALIST"]

\* the hook's table asking for two full weeks (14 days) at level 3
useMastery_MASTERY_THRESHOLDS_twoWeeks ==
    2 :> [daysCompleted |-> 3, aiTutorSessions |-> 1, clearance |-> "FIELD_TRAINEE"] @@
    3 :> [daysCompleted |-> 14, artifactsSubmitted |-> 1, clearance |-> "FIELD_READY"] @@
    4 :> [daysCompleted |-> 20, artifactsSubmitted |-> 3, peerAssistsGiven |-> 2,
          clearance |-> "SPECIALIST"]

\* MASTERY_THRESHOLDS of the useMastery hook
useMastery_MASTERY_THRESHOLDS ==
    2 :> [daysCompleted |-> 3, aiTutorSessions |-> 1, clearance |-> "FIELD_TRAINEE"] @@
    3 :> [daysCompleted |-> 10, artifactsSubmitted |-> 1, clearance |-> "FIELD_READY"] @@
    4 :> [daysCompleted |-> 20, artifactsSubmitted |-> 3, peerAssistsGiven |-> 2,
          clearance |-> "SPECIALIST"]

\* x ?? 0
OrZero(x) == IF x = None THEN 0 ELSE x[1]

ClearanceOf(level) ==
    IF level = 1 THEN INITIAL_CLEARANCE ELSE MASTERY_THRESHOLDS[level].clearance

\* mastery records with every level and counters up to the bounds
MasteryRecord ==
    {[mastery_level       |-> l,
      clearance           |-> ClearanceOf(l),
      days_completed      |-> d,
      artifacts_submitted |-> a,
      ai_tutor_sessions   |-> t,
      peer_assists_given  |-> p] :
        l \in MasteryLevels, d \in 0..MaxDays, a \in 0..MaxArtifacts,
        t \in 0..MaxTutorSessions, p \in 0..MaxPeerAssists}

\* the cron route's evaluator with the "currentLevel < 3" guard left out
calculateNewLevel_unguarded(mastery) ==
    LET currentLevel == mastery.mastery_level
        t4 == MASTERY_THRESHOLDS[4]
        t3 == MASTERY_THRESHOLDS[3]
        t2 == MASTERY_THRESHOLDS[2]
    IN  IF /\ currentLevel < 4
           /\ mastery.days_completed >= t4.daysCompleted
           /\ mastery.artifacts_submitted >= OrZero(t4.artifactsSubmitted)
           /\ mastery.peer_assists_given >= OrZero(t4.peerAssistsGiven)
        THEN Some([newLevel |-> 4, newClearance |-> t4.clearance])
        ELSE IF /\ mastery.days_completed >= t3.daysCompleted
                /\ mastery.artifacts_submitted >= OrZero(t3.artifactsSubmitted)
        THEN Some([newLevel |-> 3, newClearance |-> t3.clearance])
        ELSE IF /\ currentLevel < 2
                /\ mastery.days_completed >= t2.daysCompleted
                /\ mastery.ai_tutor_sessions >= OrZero(t2.aiTutorSessions)
        THEN Some([newLevel |-> 2, newClearance |-> t2.clearance])
        ELSE None

\* calculateNewLevel of the cron route: None for null
calculateNewLevel(mastery) ==
    LET currentLevel == mastery.mastery_level
        t4 == MASTERY_THRESHOLDS[4]
        t3 == MASTERY_THRESHOLDS[3]
        t2 == MASTERY_THRESHOLDS[2]
    IN  IF /\ currentLevel < 4
           /\ mastery.days_completed >= t4.daysCompleted
           /\ mastery.artifacts_submitted >= OrZero(t4.artifactsSubmitted)
           /\ mastery.peer_assists_given >= OrZero(t4.peerAssistsGiven)
        THEN Some([newLevel |-> 4, newClearance |-> t4.clearance])
        ELSE IF /\ currentLevel < 3
                /\ mastery.days_completed >= t3.daysCompleted
                /\ mastery.artifacts_submitted >= OrZero(t3.artifactsSubmitted)
        THEN Some([newLevel |-> 3, newClearance |-> t3.clearance])
        ELSE IF /\ currentLevel < 2
                /\ mastery.days_completed >= t2.daysCompleted
                /\ mastery.ai_tutor_sessions >= OrZero(t2.aiTutorSessions)
        THEN Some([newLevel |-> 2, newClearance |-> t2.clearance])
        ELSE None

\* the hook's evaluator checking the levels from the lowest up
useMastery_calculateNewLevel_ascending(currentMastery) ==
    LET currentLevel == currentMastery.mastery_level
        t4 == useMastery_MASTERY_THRESHOLDS[4]
        t3 == useMastery_MASTERY_THRESHOLDS[3]
        t2 == useMastery_MASTERY_THRESHOLDS[2]
    IN  IF /\ currentLevel < 2
           /\ currentMastery.days_completed >= t2.daysCompleted
           /\ currentMastery.ai_tutor_sessions >= t2.aiTutorSessions
        THEN Some([newLevel |-> 2, newClearance |-> t2.clearance])
        ELSE IF /\ currentLevel < 3
                /\ currentMastery.days_completed >= t3.daysCompleted
                /\ currentMastery.artifacts_submitted >= t3.artifactsSubmitted
        THEN Some([newLevel |-> 3, newClearance |-> t3.clearance])
        ELSE IF /\ currentLevel < 4
                /\ currentMastery.days_completed >= t4.daysCompleted
                /\ currentMastery.artifacts_submitted >= t4.artifactsSubmitted
                /\ currentMastery.peer_assists_given >= t4.peerAssistsGiven
        THEN Some([newLevel |-> 4, newClearance |-> t4.clearance])
        ELSE None

\* calculateNewLevel of the useMastery hook: None for null
useMastery_calculateNewLevel(currentMastery) ==
    LET currentLevel == currentMastery.mastery_level
        t4 == useMastery_MASTERY_THRESHOLDS[4]
        t3 == useMastery_MASTERY_THRESHOLDS[3]
        t2 == useMastery_MASTERY_THRESHOLDS[2]
    IN  IF /\ currentLevel < 4
           /\ currentMastery.days_completed >= t4.daysCompleted
           /\ currentMastery.artifacts_submitted >= t4.artifactsSubmitted
           /\ currentMastery.peer_assists_given >= t4.peerAssistsGiven
        THEN Some([newLevel |-> 4, newClearance |-> t4.clearance])
        ELSE IF /\ currentLevel < 3
                /\ currentMastery.days_completed >= t3.daysCompleted
                /\ currentMastery.artifacts_submitted >= t3.artifactsSubmitted
        THEN Some([newLevel |-> 3, newClearance |-> t3.clearance])
        ELSE IF /\ currentLevel < 2
                /\ currentMastery.days_completed >= t2.daysCompleted
                /\ currentMastery.ai_tutor_sessions >= t2.aiTutorSessions
        THEN Some([newLevel |-> 2, newClearance |-> t2.clearance])
        ELSE None

(***************************************************************************)
(* Program-wide aggregate                                                  *)
(***************************************************************************)
\* a JavaScript number that is either an integer n, Some(n), or NaN
NaN == None

\* Math.round(num / den) for num >= 0 and den >= 0; 0 / 0 is NaN
\* (num > 0 with den = 0 would be Infinity: no caller below produces it)
MathRoundOrNaN(num, den) ==
    IF den = 0 THEN NaN ELSE Some(MathRound(num, den))

\* taskForces.reduce((sum, tf) => sum + tf.totalMembers, 0)
RECURSIVE SumTotalMembers(_)
SumTotalMembers(tfs) ==
    IF tfs = <<>> THEN 0 ELSE tfs[1].totalMembers + SumTotalMembers(Tail(tfs))

\* taskForces.reduce((sum, tf) => sum + tf.overallReadiness * tf.totalMembers, 0)
RECURSIVE WeightedReadiness(_)
WeightedReadiness(tfs) ==
    IF tfs = <<>> THEN 0
    ELSE tfs[1].overallReadiness * tfs[1].totalMembers + WeightedReadiness(Tail(tfs))

\* taskForces.filter((tf) => tf.isOnTrack).length
OnTrackCount(tfs) == Len(SelectSeq(tfs, LAMBDA tf : tf.isOnTrack))

\* the roleBreakdown entries of all task forces, in forEach order
RECURSIVE AllBreakdowns(_)
AllBreakdowns(tfs) ==
    IF tfs = <<>> THEN <<>> ELSE tfs[1].roleBreakdown \o AllBreakdowns(Tail(tfs))

\* existing.total after all entries of one role
RECURSIVE RoleTotal(_, _)
RoleTotal(rbs, role) ==
    IF rbs = <<>> THEN 0
    ELSE (IF rbs[1].role = role THEN rbs[1].count ELSE 0) + RoleTotal(Tail(rbs), role)

\* existing.sumReadiness after all entries of one role
RECURSIVE RoleSumReadiness(_, _)
RoleSumReadiness(rbs, role) ==
    IF rbs = <<>> THEN 0
    ELSE (IF rbs[1].role = role THEN rbs[1].readinessPercent * rbs[1].count ELSE 0)
         + RoleSumReadiness(Tail(rbs), role)

\* roleAnalysisFinal: a Map from the roles met to { total, avgReadiness }
RoleAnalysis(tfs) ==
    LET rbs  == AllBreakdowns(tfs)
        keys == {rbs[i].role : i \in 1..Len(rbs)}
    IN  [role \in keys |->
            [total        |-> RoleTotal(rbs, role),
             avgReadiness |-> MathRoundOrNaN(RoleSumReadiness(rbs, role), RoleTotal(rbs, role))]]

calculateOverallProgramReadiness(tfs) ==
    IF Len(tfs) = 0
    THEN [overallReadiness  |-> Some(0),
          totalParticipants |-> 0,
          taskForcesOnTrack |-> 0,
          taskForcesAtRisk  |-> 0,
          roleAnalysis      |-> <<>>]
    ELSE LET totalParticipants == SumTotalMembers(tfs)
             taskForcesOnTrack == OnTrackCount(tfs)
         IN  [overallReadiness  |-> MathRoundOrNaN(WeightedReadiness(tfs), totalParticipants),
              totalParticipants |-> totalParticipants,
              taskForcesOnTrack |-> taskForcesOnTrack,
              taskForcesAtRisk  |-> Len(tfs) - taskForcesOnTrack,
              roleAnalysis      |-> RoleAnalysis(tfs)]

(***************************************************************************)
(* Idle values of each subsystem, held while another one is checked        *)
(***************************************************************************)
IdleReadiness ==
    /\ members = <<>>
    /\ previousReadiness = None
    /\ diffDays = 0
    /\ result = None

IdleLevel ==
    /\ record = None
    /\ cronLevelUp = None
    /\ hookLevelUp = None

IdleMastery ==
    /\ row = None
    /\ tabs = <<>>
    /\ cron = None
    /\ grown = 0
    /\ applied = None

IdleLive ==
    /\ session = None
    /\ serverActive = FALSE
    /\ sessionState = None
    /\ isConnected = FALSE
    /\ isSyncPaused = FALSE
    /\ localStep = 0
    /\ localSection = NULL
    /\ closure = None
    /\ channel = "closed"
    /\ view = "unmounted"
    /\ lastAction = "other"

IdleCalendar ==
    /\ clockDays = 0
    /\ today = None
    /\ expected = None

IdleHook ==
    /\ isInstructor = FALSE
    /\ hookStatus = "closed"
    /\ channelRef = FALSE
    /\ hookPending = "none"
    /\ hookSessionState = None
    /\ hookClosure = None
    /\ participants = <<>>
    /\ hookConnected = FALSE
    /\ hookOp = "other"
    /\ outbox = None
    /\ received = None

IdleSweep ==
    /\ cronSecret = None
    /\ authHeader = None
    /\ endpoint = "none"
    /\ sweepPc = "off"
    /\ participantMastery = <<>>
    /\ masteryRecords = None
    /\ sweepIdx = 0
    /\ updates = <<>>
    /\ failedUpdates = {}
    /\ recognitionTypes = {}
    /\ candidates = <<>>
    /\ recognitions = {}
    /\ results = <<>>
    /\ response = None
    /\ touched = "none"

IdleContent ==
    /\ contentCache = <<>>
    /\ contentPc = "off"
    /\ contentRequest = None
    /\ offered = None
    /\ consulted = <<>>
    /\ contentResponse = None
    /\ soloCache = <<>>
    /\ soloResponse = None

IdleIntel ==
    /\ userTaskForce = None
    /\ intelEvent = "off"
    /\ handed = {}
    /\ toasts = {}

IdleProgram ==
    /\ teams = <<>>
    /\ programClock = 0
    /\ program = None

IdleTimer ==
    /\ timerHook = "none"
    /\ effectActive = FALSE
    /\ effectRuns = 0
    /\ timerStatus = "closed"
    /\ awaiting = 0
    /\ intervals = {}
    /\ heartbeatRef = None
    /\ issued = 0

IdleOffline ==
    /\ cachedDays = <<>>
    /\ localStore = None
    /\ batch = None
    /\ completed = None

IdleAward ==
    /\ qualifying = <<>>
    /\ awardRows = <<>>
    /\ runs = <<>>

IdleRelease ==
    /\ intelTable = <<>>
    /\ replicaFull = FALSE
    /\ allIntelDrops = <<>>
    /\ wire = <<>>
    /\ clientTaskForce = None
    /\ notified = <<>>
    /\ releasedTimes = <<>>
    /\ delivered = None

IdleLeaderboard ==
    /\ data = <<>>
    /\ lastDelta = None

(***************************************************************************)
(* Specification of the readiness engine                                   *)
(***************************************************************************)
InitReadiness ==
    /\ members \in SeqsUpTo(MemberMastery, MaxMembers)
    /\ previousReadiness \in {None} \cup {Some(p) : p \in PreviousSamples}
    /\ diffDays \in ClockSamples
    /\ result = None
    /\ IdleLevel
    /\ IdleMastery
    /\ IdleLive
    /\ IdleCalendar
    /\ IdleHook
    /\ IdleSweep
    /\ IdleContent
    /\ IdleIntel
    /\ IdleProgram
    /\ IdleTimer
    /\ IdleOffline
    /\ IdleAward
    /\ IdleRelease
    /\ IdleLeaderboard

\* one call of calculateTaskForceReadiness on the inputs
Calculate ==
    /\ result = None
    /\ result' = Some(calculateTaskForceReadiness(members, previousReadiness, diffDays))
    /\ UNCHANGED <<members, previousReadiness, diffDays, otherThanReadiness>>

NextReadiness == Calculate

SpecReadiness == InitReadiness /\ [][NextReadiness]_vars

(***************************************************************************)
(* Specification of the evaluator: one record, evaluated by both copies    *)
(***************************************************************************)
InitLevel ==
    /\ record \in {Some(m) : m \in MasteryRecord}
    /\ cronLevelUp = None
    /\ hookLevelUp = None
    /\ IdleReadiness
    /\ IdleMastery
    /\ IdleLive
    /\ IdleCalendar
    /\ IdleHook
    /\ IdleSweep
    /\ IdleContent
    /\ IdleIntel
    /\ IdleProgram
    /\ IdleTimer
    /\ IdleOffline
    /\ IdleAward
    /\ IdleRelease
    /\ IdleLeaderboard

\* the sweep evaluates the record
CronEvaluate ==
    /\ cronLevelUp = None
    /\ cronLevelUp' = Some(calculateNewLevel(record[1]))
    /\ UNCHANGED <<record, hookLevelUp, otherThanLevel>>

\* the hook evaluates the record
HookEvaluate ==
    /\ hookLevelUp = None
    /\ hookLevelUp' = Some(useMastery_calculateNewLevel(record[1]))
    /\ UNCHANGED <<record, cronLevelUp, otherThanLevel>>

NextLevel == CronEvaluate \/ HookEvaluate

SpecLevel == InitLevel /\ [][NextLevel]_vars

(***************************************************************************)
(* Specification of level-up application: one participant_mastery row,     *)
(* browser tabs running useMastery, the cron sweep, and counters that grow *)
(***************************************************************************)
Tabs == {"tabA", "tabB"}

Counters == {"days_completed", "artifacts_submitted", "ai_tutor_sessions", "peer_assists_given"}

\* the values at which a counter crosses a threshold of the table
CounterMilestones ==
    [days_completed      |-> {3, 10, 20},
     artifacts_submitted |-> {1, 3},
     ai_tutor_sessions   |-> {1},
     peer_assists_given  |-> {2}]

\* the row as stored
Row == row[1]

\* .update({ mastery_level, clearance }) applied to the stored row
UpdateRow(stored, levelUp) ==
    [stored EXCEPT !.mastery_level = levelUp.newLevel, !.clearance = levelUp.newClearance]

\* history of the level-ups written: keeps the highest one and the record it came from
Remember(levelUp, evaluated) ==
    IF applied = None \/ levelUp.newLevel > applied[1].newLevel
    THEN Some([newLevel |-> levelUp.newLevel, newClearance |-> levelUp.newClearance,
               record |-> evaluated])
    ELSE applied

\* rows of a participant not levelled up yet, each counter at 0 or at a milestone
StartingRows ==
    {[mastery_level       |-> 1,
      clearance           |-> INITIAL_CLEARANCE,
      days_completed      |-> d,
      artifacts_submitted |-> a,
      ai_tutor_sessions   |-> t,
      peer_assists_given  |-> p] :
        d \in {0} \cup CounterMilestones.days_completed,
        a \in {0} \cup CounterMilestones.artifacts_submitted,
        t \in {0} \cup CounterMilestones.ai_tutor_sessions,
        p \in {0} \cup CounterMilestones.peer_assists_given}

InitMastery ==
    /\ row \in {Some(r) : r \in StartingRows}
    /\ grown = 0
    /\ tabs = [t \in Tabs |-> [mastery |-> None, captured |-> None, pc |-> "idle"]]
    /\ cron = [pc |-> "idle", masteryRecords |-> None]
    /\ applied = None
    /\ IdleReadiness
    /\ IdleLevel
    /\ IdleLive
    /\ IdleCalendar
    /\ IdleHook
    /\ IdleSweep
    /\ IdleContent
    /\ IdleIntel
    /\ IdleProgram
    /\ IdleTimer
    /\ IdleOffline
    /\ IdleAward
    /\ IdleRelease
    /\ IdleLeaderboard

\* the participant's counters advance (to the next milestone of one counter)
GrowCounters(c) ==
    /\ grown < MaxGrowth
    /\ grown' = grown + 1
    /\ \E v \in CounterMilestones[c] :
         /\ v > Row[c]
         /\ \A w \in CounterMilestones[c] : w > Row[c] => v <= w
         /\ row' = Some([Row EXCEPT ![c] = v])
    /\ UNCHANGED <<tabs, cron, applied, otherThanMastery>>

\* refreshMastery: select the row and setMastery(data)
RefreshMastery(t) ==
    /\ tabs[t].pc = "idle"
    /\ tabs[t].mastery # row
    /\ tabs' = [tabs EXCEPT ![t].mastery = row]
    /\ UNCHANGED <<row, cron, grown, applied, otherThanMastery>>

\* an INSERT on submissions reaches the tab: the handler runs the checkForLevelUp
\* of the render that subscribed it, which holds that render's mastery
SubmissionInserted(t) ==
    /\ tabs[t].pc = "idle"
    /\ tabs' = [tabs EXCEPT ![t].captured = tabs[t].mastery, ![t].pc = "refreshing"]
    /\ UNCHANGED <<row, cron, grown, applied, otherThanMastery>>

\* await refreshMastery() inside the handler: the state is refreshed, the closure is not
RefreshInHandler(t) ==
    /\ tabs[t].pc = "refreshing"
    /\ tabs' = [tabs EXCEPT ![t].mastery = row, ![t].pc = "checking"]
    /\ UNCHANGED <<row, cron, grown, applied, otherThanMastery>>

\* checkForLevelUp: evaluate the captured mastery and, on a level-up, update the row
\* unconditionally and setMastery(the returned row)
CheckForLevelUp(t) ==
    /\ tabs[t].pc = "checking"
    /\ LET mastery == tabs[t].captured
           levelUp == IF mastery = None THEN None ELSE useMastery_calculateNewLevel(mastery[1])
       IN  IF levelUp = None
           THEN /\ tabs' = [tabs EXCEPT ![t].captured = None, ![t].pc = "idle"]
                /\ UNCHANGED <<row, applied>>
           ELSE /\ row' = Some(UpdateRow(Row, levelUp[1]))
                /\ tabs' = [tabs EXCEPT ![t].mastery = Some(UpdateRow(Row, levelUp[1])),
                                        ![t].captured = None, ![t].pc = "idle"]
                /\ applied' = Remember(levelUp[1], mastery[1])
    /\ UNCHANGED <<cron, grown, otherThanMastery>>

\* the sweep selects the mastery records
CronFetch ==
    /\ cron.pc = "idle"
    /\ cron' = [pc |-> "loaded", masteryRecords |-> row]
    /\ UNCHANGED <<row, tabs, grown, applied, otherThanMastery>>

\* the sweep evaluates the fetched record and, on a level-up, updates the row unconditionally
CronApply ==
    /\ cron.pc = "loaded"
    /\ LET mastery == cron.masteryRecords[1]
           levelUp == calculateNewLevel(mastery)
       IN  IF levelUp = None
           THEN UNCHANGED <<row, applied>>
           ELSE /\ row' = Some(UpdateRow(Row, levelUp[1]))
                /\ applied' = Remember(levelUp[1], mastery)
    /\ cron' = [pc |-> "idle", masteryRecords |-> None]
    /\ UNCHANGED <<tabs, grown, otherThanMastery>>

NextMastery ==
    \/ \E c \in Counters : GrowCounters(c)
    \/ \E t \in Tabs : RefreshMastery(t)
    \/ \E t \in Tabs : SubmissionInserted(t)
    \/ \E t \in Tabs : RefreshInHandler(t)
    \/ \E t \in Tabs : CheckForLevelUp(t)
    \/ CronFetch
    \/ CronApply

SpecMastery == InitMastery /\ [][NextMastery]_vars

(***************************************************************************)
(* Live session: the student view                                          *)
(***************************************************************************)
SECTIONS == {"briefing", "resources", "lab", "debrief"}
Steps == 1..MaxStep

SessionState == [currentStep : Steps, currentSection : SECTIONS, isActive : BOOLEAN]

\* Partial<SessionState>: each field present (Some) or absent (None)
Payloads ==
    [currentStep    : {None} \cup {Some(n) : n \in Steps},
     currentSection : {None} \cup {Some(x) : x \in SECTIONS},
     isActive       : {None} \cup {Some(b) : b \in BOOLEAN}]

\* a ?? b ?? c over an optional payload field, an optional state and a default
Coalesce(field, state, name, default) ==
    IF field # None THEN field[1]
    ELSE IF state # None THEN state[1][name]
    ELSE default

\* instructorStep / instructorSection as the view derives them
instructorStep ==
    IF sessionState # None THEN sessionState[1].currentStep ELSE session[1].current_step
instructorSection ==
    IF sessionState # None THEN sessionState[1].currentSection ELSE session[1].current_section

\* the row a session is created with; the student opens the page while it still holds
CreatedSession == [current_step |-> 1, current_section |-> "briefing"]

InitLive ==
    /\ session = Some(CreatedSession)
    /\ serverActive = TRUE
    /\ sessionState = None
    /\ isConnected = FALSE
    /\ isSyncPaused = FALSE
    /\ localStep = session[1].current_step
    /\ localSection = session[1].current_section
    /\ closure = Some([sessionState |-> None, isSyncPaused |-> FALSE])
    /\ channel = "joining"
    /\ view = "mounted"
    /\ lastAction = "other"
    /\ IdleReadiness
    /\ IdleLevel
    /\ IdleMastery
    /\ IdleCalendar
    /\ IdleHook
    /\ IdleSweep
    /\ IdleContent
    /\ IdleIntel
    /\ IdleProgram
    /\ IdleTimer
    /\ IdleOffline
    /\ IdleAward
    /\ IdleRelease
    /\ IdleLeaderboard

Mounted == view # "unmounted"
Receiving == Mounted /\ channel \in {"fetching", "subscribed"}

\* subscribe callback, status SUBSCRIBED: up to the awaited fetchSessionState
Subscribed ==
    /\ Mounted
    /\ channel = "joining"
    /\ isConnected' = TRUE
    /\ channel' = "fetching"
    /\ lastAction' = "other"
    /\ UNCHANGED <<session, serverActive, sessionState, isSyncPaused, localStep, localSection,
                   closure, view, otherThanLive>>

\* subscribe callback, status CHANNEL_ERROR
ChannelError ==
    /\ Mounted
    /\ channel = "joining"
    /\ isConnected' = FALSE
    /\ lastAction' = "other"
    /\ UNCHANGED <<session, serverActive, sessionState, isSyncPaused, localStep, localSection,
                   closure, channel, view, otherThanLive>>

\* fetchSessionState succeeds: setSessionState(the stored row), onSessionEnd if it is inactive
FetchSessionState(step, section) ==
    /\ Mounted
    /\ channel = "fetching"
    /\ sessionState' = Some([currentStep |-> step, currentSection |-> section,
                             isActive |-> serverActive])
    /\ view' = IF ~serverActive THEN "leaving" ELSE view
    /\ channel' = "subscribed"
    /\ lastAction' = "other"
    /\ UNCHANGED <<session, serverActive, isConnected, isSyncPaused, localStep, localSection,
                   closure, otherThanLive>>

\* fetchSessionState fails: setError only
FetchSessionStateFailed ==
    /\ Mounted
    /\ channel = "fetching"
    /\ channel' = "subscribed"
    /\ lastAction' = "other"
    /\ UNCHANGED <<session, serverActive, sessionState, isConnected, isSyncPaused, localStep,
                   localSection, closure, view, otherThanLive>>

\* broadcast state_update received: the handler of the current channel, with the
\* sessionState and the onStateChange (isSyncPaused) its effect run captured
OnStateUpdate(payload) ==
    /\ Receiving
    /\ LET captured == closure[1]
           newState ==
             [currentStep    |-> Coalesce(payload.currentStep, captured.sessionState,
                                          "currentStep", 1),
              currentSection |-> Coalesce(payload.currentSection, captured.sessionState,
                                          "currentSection", "briefing"),
              isActive       |-> Coalesce(payload.isActive, captured.sessionState,
                                          "isActive", TRUE)]
       IN  /\ sessionState' = Some(newState)
           /\ IF ~captured.isSyncPaused
              THEN /\ localStep' = newState.currentStep
                   /\ localSection' = newState.currentSection
              ELSE UNCHANGED <<localStep, localSection>>
           /\ view' = IF ~newState.isActive THEN "leaving" ELSE view
    /\ lastAction' = "other"
    /\ UNCHANGED <<session, serverActive, isConnected, isSyncPaused, closure, channel,
                   otherThanLive>>

\* broadcast session_end received
OnSessionEnd ==
    /\ Receiving
    /\ sessionState' = IF sessionState # None
                       THEN Some([sessionState[1] EXCEPT !.isActive = FALSE])
                       ELSE None
    /\ view' = "leaving"
    /\ lastAction' = "other"
    /\ UNCHANGED <<session, serverActive, isConnected, isSyncPaused, localStep, localSection,
                   closure, channel, otherThanLive>>

\* the Pause Sync / Resume Sync button
toggleSync ==
    /\ Mounted
    /\ IF isSyncPaused /\ sessionState # None
       THEN /\ localStep' = sessionState[1].currentStep
            /\ localSection' = sessionState[1].currentSection
       ELSE UNCHANGED <<localStep, localSection>>
    /\ isSyncPaused' = ~isSyncPaused
    /\ lastAction' = IF isSyncPaused THEN "resumeSync" ELSE "other"
    /\ UNCHANGED <<session, serverActive, sessionState, isConnected, closure, channel, view,
                   otherThanLive>>

\* the Rejoin Sync button
rejoinSync ==
    /\ Mounted
    /\ IF sessionState # None
       THEN /\ localStep' = sessionState[1].currentStep
            /\ localSection' = sessionState[1].currentSection
            /\ isSyncPaused' = FALSE
       ELSE UNCHANGED <<localStep, localSection, isSyncPaused>>
    /\ lastAction' = "rejoinSync"
    /\ UNCHANGED <<session, serverActive, sessionState, isConnected, closure, channel, view,
                   otherThanLive>>

\* a section button is clicked
SelectSection(id) ==
    /\ Mounted
    /\ localSection' = id
    /\ isSyncPaused' = IF ~isSyncPaused /\ id # instructorSection THEN TRUE ELSE isSyncPaused
    /\ lastAction' = "other"
    /\ UNCHANGED <<session, serverActive, sessionState, isConnected, localStep, closure,
                   channel, view, otherThanLive>>

\* the effect runs again after a render: the old channel is unsubscribed, a new one
\* is created whose handlers capture the state of this render
EffectRerun ==
    /\ Mounted
    /\ closure' = Some([sessionState |-> sessionState, isSyncPaused |-> isSyncPaused])
    /\ channel' = "joining"
    /\ lastAction' = "other"
    /\ UNCHANGED <<session, serverActive, sessionState, isConnected, isSyncPaused, localStep,
                   localSection, view, otherThanLive>>

\* the instructor ends the session (useInstructorSession.endSession)
endSession ==
    /\ Mounted
    /\ serverActive
    /\ serverActive' = FALSE
    /\ lastAction' = "other"
    /\ UNCHANGED <<session, sessionState, isConnected, isSyncPaused, localStep, localSection,
                   closure, channel, view, otherThanLive>>

\* the view is torn down (route pushed by onSessionEnd, or Leave Session): effect cleanup
Unmount ==
    /\ Mounted
    /\ view' = "unmounted"
    /\ channel' = "closed"
    /\ lastAction' = "other"
    /\ UNCHANGED <<session, serverActive, sessionState, isConnected, isSyncPaused, localStep,
                   localSection, closure, otherThanLive>>

NextLive ==
    \/ Subscribed
    \/ ChannelError
    \/ \E step \in Steps, section \in SECTIONS : FetchSessionState(step, section)
    \/ FetchSessionStateFailed
    \/ \E payload \in Payloads : OnStateUpdate(payload)
    \/ OnSessionEnd
    \/ toggleSync
    \/ rejoinSync
    \/ \E id \in SECTIONS : SelectSection(id)
    \/ EffectRerun
    \/ endSession
    \/ Unmount

SpecLive == InitLive /\ [][NextLive]_vars

(***************************************************************************)
(* Specification of the program calendar                                   *)
(***************************************************************************)
\* the clock relative to PROGRAM_START, and the day numbers a caller may pass
ClockRange == (0 - MaxClock)..MaxClock

InitCalendar ==
    /\ clockDays \in ClockRange
    /\ today = None
    /\ expected = None
    /\ IdleReadiness
    /\ IdleLevel
    /\ IdleMastery
    /\ IdleLive
    /\ IdleHook
    /\ IdleSweep
    /\ IdleContent
    /\ IdleIntel
    /\ IdleProgram
    /\ IdleTimer
    /\ IdleOffline
    /\ IdleAward
    /\ IdleRelease
    /\ IdleLeaderboard

\* getCurrentProgramDay()
CurrentProgramDay ==
    /\ today = None
    /\ today' = Some(getCurrentProgramDay(clockDays))
    /\ UNCHANGED <<clockDays, expected, otherThanCalendar>>

\* getExpectedReadiness(getCurrentProgramDay()), as the readiness engine calls it
ExpectedReadinessOfToday ==
    /\ today # None
    /\ expected = None
    /\ expected' = Some([programDay |-> today[1],
                         target |-> getExpectedReadiness(today[1])])
    /\ UNCHANGED <<clockDays, today, otherThanCalendar>>

\* getExpectedReadiness(d): the function is exported and takes any day number
ExpectedReadiness(d) ==
    /\ expected = None
    /\ expected' = Some([programDay |-> d, target |-> getExpectedReadiness(d)])
    /\ UNCHANGED <<clockDays, today, otherThanCalendar>>

NextCalendar ==
    \/ CurrentProgramDay
    \/ ExpectedReadinessOfToday
    \/ \E d \in ClockRange : ExpectedReadiness(d)

SpecCalendar == InitCalendar /\ [][NextCalendar]_vars

(***************************************************************************)
(* Live session: one useLiveSession hook, instructor's or student's        *)
(***************************************************************************)
ParticipantIds == 1..MaxParticipants

\* participant lists without a repeated id
ParticipantLists ==
    {ps \in SeqsUpTo(ParticipantIds, MaxParticipants) :
        \A i, j \in 1..Len(ps) : ps[i] = ps[j] => i = j}

\* { ...prev, ...state }
Spread(prev, state) ==
    [currentStep    |-> IF state.currentStep # None THEN state.currentStep[1]
                        ELSE prev.currentStep,
     currentSection |-> IF state.currentSection # None THEN state.currentSection[1]
                        ELSE prev.currentSection,
     isActive       |-> IF state.isActive # None THEN state.isActive[1] ELSE prev.isActive]

InitHook ==
    /\ isInstructor \in BOOLEAN
    /\ hookStatus = "joining"
    /\ channelRef = FALSE
    /\ hookPending = "none"
    /\ hookSessionState = None
    /\ hookClosure = None
    /\ participants = <<>>
    /\ hookConnected = FALSE
    /\ hookOp = "other"
    /\ outbox = None
    /\ received = None
    /\ IdleReadiness
    /\ IdleLevel
    /\ IdleMastery
    /\ IdleCalendar
    /\ IdleLive
    /\ IdleSweep
    /\ IdleContent
    /\ IdleIntel
    /\ IdleProgram
    /\ IdleTimer
    /\ IdleOffline
    /\ IdleAward
    /\ IdleRelease
    /\ IdleLeaderboard

\* the broadcast handlers run while the channel is joined
HookReceiving == hookStatus = "subscribed"

\* subscribe callback, status SUBSCRIBED (first join, or rejoin after an error)
HookSubscribed ==
    /\ hookStatus \in {"joining", "failed", "dropped"}
    /\ hookStatus' = "subscribed"
    /\ hookConnected' = TRUE
    /\ channelRef' = TRUE
    /\ hookPending' = "state"
    /\ hookOp' = "other"
    /\ received' = None
    /\ outbox' = None
    /\ UNCHANGED <<isInstructor, hookSessionState, hookClosure, participants, otherThanHook>>

\* subscribe callback, status CHANNEL_ERROR
HookChannelError ==
    /\ hookStatus \in {"joining", "subscribed"}
    /\ hookStatus' = IF hookStatus = "joining" THEN "failed" ELSE "dropped"
    /\ hookConnected' = FALSE
    /\ hookOp' = "other"
    /\ received' = None
    /\ outbox' = None
    /\ UNCHANGED <<isInstructor, channelRef, hookPending, hookSessionState, hookClosure,
                   participants, otherThanHook>>

\* fetchSessionState returns the stored row, or fails
HookFetchSessionState(fetched) ==
    /\ hookPending = "state"
    /\ hookPending' = "participants"
    /\ hookSessionState' = IF fetched # None THEN fetched ELSE hookSessionState
    /\ hookOp' = "other"
    /\ received' = None
    /\ outbox' = None
    /\ UNCHANGED <<isInstructor, hookStatus, channelRef, hookClosure, participants,
                   hookConnected, otherThanHook>>

\* fetchParticipants returns the stored participants, or fails
HookFetchParticipants(fetched) ==
    /\ hookPending = "participants"
    /\ hookPending' = "none"
    /\ participants' = IF fetched # None THEN fetched[1] ELSE participants
    /\ hookOp' = "other"
    /\ received' = None
    /\ outbox' = None
    /\ UNCHANGED <<isInstructor, hookStatus, channelRef, hookSessionState, hookClosure,
                   hookConnected, otherThanHook>>

\* sendStateUpdate without the isInstructor test
sendStateUpdate_anyRole(state) ==
    /\ IF ~channelRef
       THEN /\ outbox' = None
            /\ UNCHANGED hookSessionState
       ELSE /\ outbox' = Some("state_update")
            /\ hookSessionState' = IF hookSessionState # None
                                   THEN Some(Spread(hookSessionState[1], state))
                                   ELSE None
    /\ hookOp' = "sendStateUpdate"
    /\ received' = None
    /\ UNCHANGED <<isInstructor, hookStatus, channelRef, hookPending, hookClosure,
                   participants, hookConnected, otherThanHook>>

\* sendStateUpdate(state)
sendStateUpdate(state) ==
    /\ IF ~channelRef \/ ~isInstructor
       THEN /\ outbox' = None
            /\ UNCHANGED hookSessionState
       ELSE /\ outbox' = Some("state_update")
            /\ hookSessionState' = IF hookSessionState # None
                                   THEN Some(Spread(hookSessionState[1], state))
                                   ELSE None
    /\ hookOp' = "sendStateUpdate"
    /\ received' = None
    /\ UNCHANGED <<isInstructor, hookStatus, channelRef, hookPending, hookClosure,
                   participants, hookConnected, otherThanHook>>

\* sendHeartbeat(), called by the 5 s interval or by the component
sendHeartbeat ==
    /\ outbox' = IF ~channelRef THEN None ELSE Some("heartbeat")
    /\ hookOp' = "sendHeartbeat"
    /\ received' = None
    /\ UNCHANGED <<isInstructor, hookStatus, channelRef, hookPending, hookSessionState,
                   hookClosure, participants, hookConnected, otherThanHook>>

\* broadcast state_update received
HookOnStateUpdate(payload) ==
    /\ HookReceiving
    /\ hookSessionState' =
         Some([currentStep    |-> Coalesce(payload.currentStep, hookClosure, "currentStep", 1),
               currentSection |-> Coalesce(payload.currentSection, hookClosure,
                                           "currentSection", "briefing"),
               isActive       |-> Coalesce(payload.isActive, hookClosure, "isActive", TRUE)])
    /\ hookOp' = "other"
    /\ received' = Some(payload)
    /\ outbox' = None
    /\ UNCHANGED <<isInstructor, hookStatus, channelRef, hookPending, hookClosure,
                   participants, hookConnected, otherThanHook>>

\* broadcast session_end received
HookOnSessionEnd ==
    /\ HookReceiving
    /\ hookSessionState' = IF hookSessionState # None
                           THEN Some([hookSessionState[1] EXCEPT !.isActive = FALSE])
                           ELSE None
    /\ hookOp' = "other"
    /\ received' = None
    /\ outbox' = None
    /\ UNCHANGED <<isInstructor, hookStatus, channelRef, hookPending, hookClosure,
                   participants, hookConnected, otherThanHook>>

\* broadcast participant_join received
OnParticipantJoin(id) ==
    /\ HookReceiving
    /\ participants' = IF \E i \in 1..Len(participants) : participants[i] = id
                       THEN participants
                       ELSE Append(participants, id)
    /\ hookOp' = "other"
    /\ received' = None
    /\ outbox' = None
    /\ UNCHANGED <<isInstructor, hookStatus, channelRef, hookPending, hookSessionState,
                   hookClosure, hookConnected, otherThanHook>>

\* broadcast participant_leave received
OnParticipantLeave(id) ==
    /\ HookReceiving
    /\ participants' = SelectSeq(participants, LAMBDA p : p # id)
    /\ hookOp' = "other"
    /\ received' = None
    /\ outbox' = None
    /\ UNCHANGED <<isInstructor, hookStatus, channelRef, hookPending, hookSessionState,
                   hookClosure, hookConnected, otherThanHook>>

\* a heartbeat handler that also takes the instructor's heartbeat as proof of an active session
OnHeartbeat_reconciling(fromInstructor) ==
    /\ HookReceiving
    /\ hookConnected' = IF fromInstructor /\ ~isInstructor THEN TRUE ELSE hookConnected
    /\ hookSessionState' = IF fromInstructor /\ hookSessionState # None
                           THEN Some([hookSessionState[1] EXCEPT !.isActive = TRUE])
                           ELSE hookSessionState
    /\ hookOp' = IF fromInstructor THEN "onInstructorHeartbeat" ELSE "onStudentHeartbeat"
    /\ received' = None
    /\ outbox' = None
    /\ UNCHANGED <<isInstructor, hookStatus, channelRef, hookPending, hookClosure,
                   participants, otherThanHook>>

\* broadcast heartbeat received, payload.isInstructor = fromInstructor
OnHeartbeat(fromInstructor) ==
    /\ HookReceiving
    /\ hookConnected' = IF fromInstructor /\ ~isInstructor THEN TRUE ELSE hookConnected
    /\ hookOp' = IF fromInstructor THEN "onInstructorHeartbeat" ELSE "onStudentHeartbeat"
    /\ received' = None
    /\ outbox' = None
    /\ UNCHANGED <<isInstructor, hookStatus, channelRef, hookPending, hookSessionState,
                   hookClosure, participants, otherThanHook>>

\* the effect runs again (sessionState is among its dependencies): cleanup
\* unsubscribes and clears channelRef, the new channel's handlers capture the state
HookEffectRerun ==
    /\ hookClosure # hookSessionState
    /\ hookClosure' = hookSessionState
    /\ hookStatus' = "joining"
    /\ channelRef' = FALSE
    /\ hookPending' = "none"
    /\ hookOp' = "other"
    /\ received' = None
    /\ outbox' = None
    /\ UNCHANGED <<isInstructor, hookSessionState, participants, hookConnected, otherThanHook>>

NextHook ==
    \/ HookSubscribed
    \/ HookChannelError
    \/ \E fetched \in {None} \cup {Some(s) : s \in SessionState} : HookFetchSessionState(fetched)
    \/ \E fetched \in {None} \cup {Some(ps) : ps \in ParticipantLists} :
          HookFetchParticipants(fetched)
    \/ \E state \in Payloads : sendStateUpdate(state)
    \/ sendHeartbeat
    \/ \E payload \in Payloads : HookOnStateUpdate(payload)
    \/ HookOnSessionEnd
    \/ \E id \in ParticipantIds : OnParticipantJoin(id)
    \/ \E id \in ParticipantIds : OnParticipantLeave(id)
    \/ \E fromInstructor \in BOOLEAN : OnHeartbeat(fromInstructor)
    \/ HookEffectRerun

SpecHook == InitHook /\ [][NextHook]_vars

(***************************************************************************)
(* Specification of the scheduled sweeps                                   *)
(***************************************************************************)
\* the secret the deployment shares with the scheduler
SharedSecret == "s3cret"

\* the header value `Bearer ${secret}`
Bearer(secret) == [scheme |-> "Bearer", credentials |-> secret]

\* authorization headers a request may carry
AuthHeaders ==
    {None, Some(Bearer(SharedSecret)), Some(Bearer("guess")),
     Some([scheme |-> "Basic", credentials |-> SharedSecret])}

\* JavaScript truthiness of process.env.CRON_SECRET
Truthy(secret) == secret # None /\ secret[1] # ""

RECOGNITION_CODES == {"early_riser", "night_scholar", "momentum", "team_supporter"}

\* the order in which the recognition sweep processes the codes
CategoryOrder == <<"early_riser", "night_scholar", "momentum", "team_supporter">>

\* codes whose candidates come from the submissions and leaderboard tables
QueriedCodes == {"early_riser", "night_scholar", "momentum"}

SweepRow(l, d, a, t, p) ==
    [mastery_level |-> l, clearance |-> ClearanceOf(l), days_completed |-> d,
     artifacts_submitted |-> a, ai_tutor_sessions |-> t, peer_assists_given |-> p]

\* stored rows: one that stays, and one that qualifies for each of the levels 2, 3, 4
SweepRows ==
    {SweepRow(1, 0, 0, 0, 0), SweepRow(1, 3, 0, 1, 0), SweepRow(2, 10, 1, 1, 3),
     SweepRow(3, 20, 3, 1, 3)}

InitSweep ==
    /\ cronSecret \in {None, Some(""), Some(SharedSecret)}
    /\ authHeader \in AuthHeaders
    /\ endpoint \in {"mastery", "recognition"}
    /\ sweepPc = "idle"
    /\ participantMastery \in SeqsUpTo(SweepRows, MaxSweepRecords)
    /\ masteryRecords = None
    /\ sweepIdx = 0
    /\ updates = <<>>
    /\ failedUpdates = {}
    /\ recognitionTypes \in {RECOGNITION_CODES, RECOGNITION_CODES \ {"night_scholar"}}
    /\ candidates \in [QueriedCodes -> {{}, {1}}]
    /\ recognitions \in {{}, {<<1, "early_riser">>}}
    /\ results = [code \in RECOGNITION_CODES |-> [found |-> 0, awarded |-> 0]]
    /\ response = None
    /\ touched = "none"
    /\ IdleReadiness
    /\ IdleLevel
    /\ IdleMastery
    /\ IdleCalendar
    /\ IdleLive
    /\ IdleHook
    /\ IdleContent
    /\ IdleIntel
    /\ IdleProgram
    /\ IdleTimer
    /\ IdleOffline
    /\ IdleAward
    /\ IdleRelease
    /\ IdleLeaderboard

\* GET, up to the first query: the cron-secret test of both routes
SweepRequest ==
    /\ sweepPc = "idle"
    /\ IF Truthy(cronSecret) /\ authHeader # Some(Bearer(cronSecret[1]))
       THEN /\ response' = Some([status |-> 401])
            /\ sweepPc' = "done"
       ELSE /\ sweepPc' = IF endpoint = "mastery" THEN "fetching" ELSE "types"
            /\ UNCHANGED response
    /\ UNCHANGED <<cronSecret, authHeader, endpoint, participantMastery, masteryRecords,
                   sweepIdx, updates, failedUpdates, recognitionTypes, candidates,
                   recognitions, results, touched, otherThanSweep>>

\* mastery sweep: select('*') from participant_mastery returns, or fails
MasteryFetch(ok) ==
    /\ sweepPc = "fetching"
    /\ IF ok
       THEN /\ masteryRecords' = Some(participantMastery)
            /\ sweepIdx' = 1
            /\ sweepPc' = "loop"
            /\ touched' = "read"
            /\ UNCHANGED response
       ELSE /\ response' = Some([status |-> 500])
            /\ sweepPc' = "done"
            /\ UNCHANGED <<masteryRecords, sweepIdx, touched>>
    /\ UNCHANGED <<cronSecret, authHeader, endpoint, participantMastery, updates,
                   failedUpdates, recognitionTypes, candidates, recognitions, results,
                   otherThanSweep>>

\* one iteration of the loop in which a failed update ends the loop
MasteryRecordStep_stopOnError(ok) ==
    /\ sweepPc = "loop"
    /\ sweepIdx <= Len(masteryRecords[1])
    /\ LET mastery == masteryRecords[1][sweepIdx]
           levelUp == calculateNewLevel(mastery)
       IN  IF levelUp = None
           THEN /\ sweepIdx' = sweepIdx + 1
                /\ UNCHANGED <<participantMastery, updates, failedUpdates, touched>>
           ELSE IF ok
           THEN /\ participantMastery' =
                     [participantMastery EXCEPT ![sweepIdx] = UpdateRow(@, levelUp[1])]
                /\ updates' = Append(updates, [participantId |-> sweepIdx,
                                               oldLevel      |-> mastery.mastery_level,
                                               newLevel      |-> levelUp[1].newLevel,
                                               newClearance  |-> levelUp[1].newClearance])
                /\ touched' = "written"
                /\ sweepIdx' = sweepIdx + 1
                /\ UNCHANGED failedUpdates
           ELSE /\ failedUpdates' = failedUpdates \cup {sweepIdx}
                /\ sweepIdx' = Len(masteryRecords[1]) + 1
                /\ UNCHANGED <<participantMastery, updates, touched>>
    /\ UNCHANGED <<cronSecret, authHeader, endpoint, sweepPc, masteryRecords,
                   recognitionTypes, candidates, recognitions, results, response,
                   otherThanSweep>>

\* one iteration of the loop over the fetched records: evaluate, update, note the outcome
MasteryRecordStep(ok) ==
    /\ sweepPc = "loop"
    /\ sweepIdx <= Len(masteryRecords[1])
    /\ LET mastery == masteryRecords[1][sweepIdx]
           levelUp == calculateNewLevel(mastery)
       IN  IF levelUp = None
           THEN UNCHANGED <<participantMastery, updates, failedUpdates, touched>>
           ELSE IF ok
           THEN /\ participantMastery' =
                     [participantMastery EXCEPT ![sweepIdx] = UpdateRow(@, levelUp[1])]
                /\ updates' = Append(updates, [participantId |-> sweepIdx,
                                               oldLevel      |-> mastery.mastery_level,
                                               newLevel      |-> levelUp[1].newLevel,
                                               newClearance  |-> levelUp[1].newClearance])
                /\ touched' = "written"
                /\ UNCHANGED failedUpdates
           ELSE /\ failedUpdates' = failedUpdates \cup {sweepIdx}
                /\ UNCHANGED <<participantMastery, updates, touched>>
    /\ sweepIdx' = sweepIdx + 1
    /\ UNCHANGED <<cronSecret, authHeader, endpoint, sweepPc, masteryRecords,
                   recognitionTypes, candidates, recognitions, results, response,
                   otherThanSweep>>

\* the summary of the mastery sweep
MasteryRespond ==
    /\ sweepPc = "loop"
    /\ sweepIdx > Len(masteryRecords[1])
    /\ response' = Some([status    |-> 200,
                         processed |-> Len(masteryRecords[1]),
                         updated   |-> Len(updates),
                         updates   |-> updates])
    /\ sweepPc' = "done"
    /\ UNCHANGED <<cronSecret, authHeader, endpoint, participantMastery, masteryRecords,
                   sweepIdx, updates, failedUpdates, recognitionTypes, candidates,
                   recognitions, results, touched, otherThanSweep>>

\* recognition sweep: select('id, code') from recognition_types returns, or fails
TypesFetch(ok) ==
    /\ sweepPc = "types"
    /\ IF ok
       THEN /\ sweepIdx' = 1
            /\ sweepPc' = "award"
            /\ touched' = "read"
            /\ UNCHANGED response
       ELSE /\ response' = Some([status |-> 500])
            /\ sweepPc' = "done"
            /\ UNCHANGED <<sweepIdx, touched>>
    /\ UNCHANGED <<cronSecret, authHeader, endpoint, participantMastery, masteryRecords,
                   updates, failedUpdates, recognitionTypes, candidates, recognitions,
                   results, otherThanSweep>>

\* the participants a recognition code's query finds
Found(code) ==
    IF code = "team_supporter"
    THEN {i \in 1..Len(participantMastery) : participantMastery[i].peer_assists_given >= 3}
    ELSE candidates[code]

\* one recognition code: find its candidates and award those who do not hold it yet;
\* the inserts of the participants in failing return an error
AwardCategory(failing) ==
    /\ sweepPc = "award"
    /\ sweepIdx <= Len(CategoryOrder)
    /\ LET code == CategoryOrder[sweepIdx]
           found == Found(code)
           fresh == {id \in found : <<id, code>> \notin recognitions}
           awarded == fresh \ failing
       IN  /\ failing \subseteq fresh
           /\ IF code \in recognitionTypes
              THEN /\ recognitions' = recognitions \cup {<<id, code>> : id \in awarded}
                   /\ results' = [results EXCEPT ![code] = [found   |-> Cardinality(found),
                                                            awarded |-> Cardinality(awarded)]]
                   /\ touched' = IF awarded # {} THEN "written" ELSE touched
              ELSE /\ failing = {}
                   /\ UNCHANGED <<recognitions, results, touched>>
    /\ sweepIdx' = sweepIdx + 1
    /\ UNCHANGED <<cronSecret, authHeader, endpoint, sweepPc, participantMastery,
                   masteryRecords, updates, failedUpdates, recognitionTypes, candidates,
                   response, otherThanSweep>>

\* the summary of the recognition sweep
RecognitionRespond ==
    /\ sweepPc = "award"
    /\ sweepIdx > Len(CategoryOrder)
    /\ response' = Some([status       |-> 200,
                         results      |-> results,
                         totalAwarded |-> results["early_riser"].awarded
                                          + results["night_scholar"].awarded
                                          + results["momentum"].awarded
                                          + results["team_supporter"].awarded])
    /\ sweepPc' = "done"
    /\ UNCHANGED <<cronSecret, authHeader, endpoint, participantMastery, masteryRecords,
                   sweepIdx, updates, failedUpdates, recognitionTypes, candidates,
                   recognitions, results, touched, otherThanSweep>>

NextSweep ==
    \/ SweepRequest
    \/ \E ok \in BOOLEAN : MasteryFetch(ok)
    \/ \E ok \in BOOLEAN : MasteryRecordStep(ok)
    \/ MasteryRespond
    \/ \E ok \in BOOLEAN : TypesFetch(ok)
    \/ \E failing \in SUBSET (1..MaxSweepRecords) : AwardCategory(failing)
    \/ RecognitionRespond

SpecSweep == InitSweep /\ [][NextSweep]_vars

(***************************************************************************)
(* Specification of the content route                                      *)
(***************************************************************************)
\* CACHE_TTL, in minutes
CACHE_TTL == 5

\* (day, isAdmin) pairs that are requested: two days, one of them by both kinds of user
RequestedKeys ==
    {[day |-> 1, isAdmin |-> FALSE], [day |-> 1, isAdmin |-> TRUE],
     [day |-> 2, isAdmin |-> FALSE]}

\* the id path parameter after parseInt: None for NaN
RequestIds == {None, Some(0), Some(26)} \cup {Some(k.day) : k \in RequestedKeys}

\* isNaN(day) || day < 1 || day > 25
InvalidDay(id) == id = None \/ id[1] < 1 \/ id[1] > PROGRAM_DAYS

\* a key made of the day alone: `day-${day}`
cacheKey_dayOnly(day, isAdmin) == [day |-> day, isAdmin |-> FALSE]

\* `day-${day}-admin-${isAdmin}`
cacheKey(day, isAdmin) == [day |-> day, isAdmin |-> isAdmin]

\* what the sources hold for a day: SITUATION.md readable locally, fetched from
\* GitHub, and the mission_days row: absent, with briefing_content null, or with text
SourceStates ==
    [local : BOOLEAN, github : BOOLEAN, database : {"norow", "null", "text"}]

getLocalContent(day, isAdmin, src) ==
    IF src.local
    THEN Some([day |-> day, situation |-> Some("local SITUATION.md"),
               resources |-> Some("local RESOURCES.md"),
               mentorNotes |-> IF isAdmin THEN Some("local MENTOR-NOTES.md") ELSE None,
               source |-> "local", cached |-> FALSE])
    ELSE None

getGitHubContent(day, isAdmin, src) ==
    IF src.github
    THEN Some([day |-> day, situation |-> Some("github SITUATION.md"),
               resources |-> Some("github RESOURCES.md"),
               mentorNotes |-> IF isAdmin THEN Some("github MENTOR-NOTES.md") ELSE None,
               source |-> "github", cached |-> FALSE])
    ELSE None

getDatabaseContent(day, src) ==
    IF src.database # "norow"
    THEN Some([day |-> day,
               situation |-> IF src.database = "text" THEN Some("briefing_content") ELSE None,
               resources |-> Some("resources_content"),
               mentorNotes |-> None,
               source |-> "database", cached |-> FALSE])
    ELSE None

InitContent ==
    /\ contentCache = [k \in RequestedKeys |-> None]
    /\ contentPc = "idle"
    /\ contentRequest = None
    /\ offered = None
    /\ consulted = <<>>
    /\ contentResponse = None
    /\ soloCache = [k \in RequestedKeys |-> None]
    /\ soloResponse = None
    /\ IdleReadiness
    /\ IdleLevel
    /\ IdleMastery
    /\ IdleCalendar
    /\ IdleLive
    /\ IdleHook
    /\ IdleSweep
    /\ IdleIntel
    /\ IdleProgram
    /\ IdleTimer
    /\ IdleOffline
    /\ IdleAward
    /\ IdleRelease
    /\ IdleLeaderboard

\* cached && Date.now() - cached.timestamp < CACHE_TTL, with the comparison slackened
Fresh_inclusive(entry) == entry # None /\ entry[1].age <= CACHE_TTL

\* cached && Date.now() - cached.timestamp < CACHE_TTL
Fresh(entry) == entry # None /\ entry[1].age < CACHE_TTL

\* the same request in the run that has no admin requests: nothing for an admin's
\* request, else 400, or the hit on that run's cache, or None until the lookup
SoloAnswer(id, isAdmin) ==
    IF isAdmin THEN None
    ELSE IF InvalidDay(id) THEN Some([status |-> 400])
    ELSE LET cached == soloCache[cacheKey(id[1], isAdmin)]
         IN  IF Fresh(cached)
             THEN Some([status |-> 200, body |-> [cached[1].data EXCEPT !.cached = TRUE]])
             ELSE None

\* GET up to the cache check: day validation, admin lookup, cache hit or miss
ContentRequest(id, isAdmin) ==
    /\ contentPc = "idle"
    /\ IF InvalidDay(id) THEN TRUE ELSE cacheKey(id[1], isAdmin) \in RequestedKeys
    /\ contentRequest' = Some([id |-> id, isAdmin |-> isAdmin])
    /\ offered' = None
    /\ consulted' = <<>>
    /\ IF InvalidDay(id)
       THEN /\ contentResponse' = Some([status |-> 400])
            /\ UNCHANGED contentPc
       ELSE LET cached == contentCache[cacheKey(id[1], isAdmin)]
            IN  IF Fresh(cached)
                THEN /\ contentResponse' =
                          Some([status |-> 200,
                                body |-> [cached[1].data EXCEPT !.cached = TRUE]])
                     /\ UNCHANGED contentPc
                ELSE /\ contentResponse' = None
                     /\ contentPc' = "lookup"
    /\ soloResponse' = SoloAnswer(id, isAdmin)
    /\ UNCHANGED <<contentCache, soloCache, otherThanContent>>

\* GET after a cache miss: local, GitHub, database in turn; store and answer, or 404
ContentLookup(src) ==
    /\ contentPc = "lookup"
    /\ LET day == contentRequest[1].id[1]
           isAdmin == contentRequest[1].isAdmin
           local == getLocalContent(day, isAdmin, src)
           github == IF local = None THEN getGitHubContent(day, isAdmin, src) ELSE None
           database == IF local = None /\ github = None
                       THEN getDatabaseContent(day, src) ELSE None
           content == IF local # None THEN local
                      ELSE IF github # None THEN github
                      ELSE database
       IN  /\ consulted' = IF local # None THEN <<"local">>
                           ELSE IF github # None THEN <<"local", "github">>
                           ELSE <<"local", "github", "database">>
           /\ IF content = None
              THEN /\ contentResponse' = Some([status |-> 404])
                   /\ UNCHANGED contentCache
              ELSE /\ contentCache' =
                        [contentCache EXCEPT ![cacheKey(day, isAdmin)] =
                            Some([data |-> content[1], age |-> 0])]
                   /\ contentResponse' = Some([status |-> 200, body |-> content[1]])
           /\ IF isAdmin \/ soloResponse # None
              THEN UNCHANGED <<soloCache, soloResponse>>
              ELSE IF content = None
              THEN /\ soloResponse' = Some([status |-> 404])
                   /\ UNCHANGED soloCache
              ELSE /\ soloCache' =
                        [soloCache EXCEPT ![cacheKey(day, isAdmin)] =
                            Some([data |-> content[1], age |-> 0])]
                   /\ soloResponse' = Some([status |-> 200, body |-> content[1]])
    /\ offered' = Some(src)
    /\ contentPc' = "idle"
    /\ UNCHANGED <<contentRequest, otherThanContent>>

\* a minute passes; ages at CACHE_TTL or beyond are all expired alike
ContentTick ==
    /\ \E k \in RequestedKeys : contentCache[k] # None /\ contentCache[k][1].age < CACHE_TTL
    /\ contentCache' =
         [k \in RequestedKeys |->
            IF contentCache[k] = None THEN None
            ELSE Some([contentCache[k][1] EXCEPT !.age = Min(@ + 1, CACHE_TTL)])]
    /\ soloCache' =
         [k \in RequestedKeys |->
            IF soloCache[k] = None THEN None
            ELSE Some([soloCache[k][1] EXCEPT !.age = Min(@ + 1, CACHE_TTL)])]
    /\ UNCHANGED <<contentPc, contentRequest, offered, consulted, contentResponse,
                   soloResponse, otherThanContent>>

NextContent ==
    \/ \E id \in RequestIds, isAdmin \in BOOLEAN : ContentRequest(id, isAdmin)
    \/ \E src \in SourceStates : ContentLookup(src)
    \/ ContentTick

SpecContent == InitContent /\ [][NextContent]_vars

(***************************************************************************)
(* Specification of the intel-drop notification                            *)
(***************************************************************************)
TASK_FORCES == {"RHEIN", "LYON", "MILAN", "AMSTERDAM"}

\* affected_task_forces: null, or a list of task forces (its members are what matters)
Targetings == {None} \cup {Some(S) : S \in SUBSET TASK_FORCES}

\* intel_drops rows as the events carry them
IntelDrops == [id : 1..MaxReleased, is_released : BOOLEAN, affected_task_forces : Targetings]

\* payload.released of a broadcast: released drops, one per id
ReleasedLists ==
    UNION {{{[id |-> i, is_released |-> TRUE, affected_task_forces |-> f[i]] : i \in ids} :
              f \in [ids -> Targetings]} : ids \in SUBSET (1..MaxReleased)}

\* affectsUser without the test for an empty list
affectsUser_nullOnly(intel, taskForce) ==
    \/ intel.affected_task_forces = None
    \/ /\ intel.affected_task_forces # None
       /\ taskForce # None
       /\ taskForce[1] \in intel.affected_task_forces[1]

\* affectsUser in handleNewIntel
affectsUser(intel, taskForce) ==
    \/ intel.affected_task_forces = None
    \/ intel.affected_task_forces = Some({})
    \/ /\ intel.affected_task_forces # None
       /\ taskForce # None
       /\ taskForce[1] \in intel.affected_task_forces[1]

\* handleNewIntel over the drops an event hands to it: those that are notified
handleNewIntel(drops, taskForce) == {d \in drops : affectsUser(d, taskForce)}

InitIntel ==
    /\ userTaskForce \in {None} \cup {Some(tf) : tf \in TASK_FORCES}
    /\ intelEvent = "none"
    /\ handed = {}
    /\ toasts = {}
    /\ IdleReadiness
    /\ IdleLevel
    /\ IdleMastery
    /\ IdleCalendar
    /\ IdleLive
    /\ IdleHook
    /\ IdleSweep
    /\ IdleContent
    /\ IdleProgram
    /\ IdleTimer
    /\ IdleOffline
    /\ IdleAward
    /\ IdleRelease
    /\ IdleLeaderboard

\* postgres_changes UPDATE with filter is_released=eq.true; oldReleased is
\* payload.old.is_released, None when the old record does not carry the column
OnIntelUpdate(newIntel, oldReleased) ==
    /\ intelEvent = "none"
    /\ newIntel.is_released
    /\ LET isNew == newIntel.is_released /\ (oldReleased = None \/ ~oldReleased[1])
           drops == IF isNew THEN {newIntel} ELSE {}
       IN  /\ handed' = drops
           /\ toasts' = handleNewIntel(drops, userTaskForce)
    /\ intelEvent' = "UPDATE"
    /\ UNCHANGED <<userTaskForce, otherThanIntel>>

\* postgres_changes INSERT
OnIntelInsert(newIntel) ==
    /\ intelEvent = "none"
    /\ LET drops == IF newIntel.is_released THEN {newIntel} ELSE {}
       IN  /\ handed' = drops
           /\ toasts' = handleNewIntel(drops, userTaskForce)
    /\ intelEvent' = "INSERT"
    /\ UNCHANGED <<userTaskForce, otherThanIntel>>

\* broadcast new_intel on the intel-releases channel
OnIntelBroadcast(released) ==
    /\ intelEvent = "none"
    /\ handed' = released
    /\ toasts' = handleNewIntel(released, userTaskForce)
    /\ intelEvent' = "broadcast"
    /\ UNCHANGED <<userTaskForce, otherThanIntel>>

NextIntel ==
    \/ \E newIntel \in IntelDrops, oldReleased \in {None, Some(FALSE), Some(TRUE)} :
          OnIntelUpdate(newIntel, oldReleased)
    \/ \E newIntel \in IntelDrops : OnIntelInsert(newIntel)
    \/ \E released \in ReleasedLists : OnIntelBroadcast(released)

SpecIntel == InitIntel /\ [][NextIntel]_vars

(***************************************************************************)
(* Specification of the program-wide aggregate                             *)
(***************************************************************************)
\* position of a member in a fixed order of the member records
MemberRank(m) ==
    MAX_MASTERY_LEVEL * (CASE m.role = "FDE" -> 0 [] m.role = "AI-SE" -> 1 [] OTHER -> 2)
    + m.mastery_level

\* member lists of a task force: one list per multiset of members
TeamLists ==
    {ms \in SeqsUpTo(MemberMastery, MaxTeamSize) :
        \A i \in 1..(Len(ms) - 1) : MemberRank(ms[i]) <= MemberRank(ms[i + 1])}

\* days from PROGRAM_START at the time of the calls: day 4, where the target is 50
ProgramClockSamples == {3}

InitProgram ==
    /\ teams \in SeqsUpTo(TeamLists, MaxTaskForces)
    /\ programClock \in ProgramClockSamples
    /\ program = None
    /\ IdleReadiness
    /\ IdleLevel
    /\ IdleMastery
    /\ IdleLive
    /\ IdleCalendar
    /\ IdleHook
    /\ IdleSweep
    /\ IdleContent
    /\ IdleIntel
    /\ IdleTimer
    /\ IdleOffline
    /\ IdleAward
    /\ IdleRelease
    /\ IdleLeaderboard

\* the TaskForceReadiness values of the teams, no previousReadiness supplied
TaskForceReadinessList ==
    [i \in 1..Len(teams) |-> calculateTaskForceReadiness(teams[i], None, programClock)]

\* one call of calculateOverallProgramReadiness on the task forces' results
Aggregate ==
    /\ program = None
    /\ program' = Some(calculateOverallProgramReadiness(TaskForceReadinessList))
    /\ UNCHANGED <<teams, programClock, otherThanProgram>>

NextProgram == Aggregate

SpecProgram == InitProgram /\ [][NextProgram]_vars

(***************************************************************************)
(* Specification of the heartbeat timers of a hook instance                *)
(***************************************************************************)
\* the hooks that start a 5-second interval in their SUBSCRIBED callback
TimerHooks == {"useLiveSession", "usePresence"}

\* after mount: the effect has run once (usePresence with a non-null user),
\* the channel is joining, both refs are null
InitTimer ==
    /\ timerHook \in TimerHooks
    /\ effectActive = TRUE
    /\ effectRuns = 1
    /\ timerStatus = "joining"
    /\ awaiting = 0
    /\ intervals = {}
    /\ heartbeatRef = None
    /\ issued = 0
    /\ IdleReadiness
    /\ IdleLevel
    /\ IdleMastery
    /\ IdleCalendar
    /\ IdleLive
    /\ IdleHook
    /\ IdleSweep
    /\ IdleContent
    /\ IdleIntel
    /\ IdleProgram
    /\ IdleOffline
    /\ IdleAward
    /\ IdleRelease
    /\ IdleLeaderboard

\* subscribe callback, status SUBSCRIBED (the join, or a rejoin after an error or
\* a timeout): the callback runs up to its await
TimerSubscribed ==
    /\ effectActive
    /\ timerStatus \in {"joining", "errored", "timedOut"}
    /\ issued + awaiting < MaxIntervals
    /\ timerStatus' = "subscribed"
    /\ awaiting' = awaiting + 1
    /\ UNCHANGED <<timerHook, effectActive, effectRuns, intervals, heartbeatRef, issued,
                   otherThanTimer>>

\* the awaited calls of a suspended callback settle (fetchSessionState and
\* fetchParticipants catch their errors; track resolves with its status): the
\* callback goes on to setInterval and stores the id in the ref
TimerStart ==
    /\ awaiting > 0
    /\ awaiting' = awaiting - 1
    /\ issued' = issued + 1
    /\ intervals' = intervals \cup {issued + 1}
    /\ heartbeatRef' = Some(issued + 1)
    /\ UNCHANGED <<timerHook, effectActive, effectRuns, timerStatus, otherThanTimer>>

\* subscribe callback, status CHANNEL_ERROR
TimerChannelError ==
    /\ effectActive
    /\ timerStatus \in {"joining", "subscribed"}
    /\ timerStatus' = "errored"
    /\ UNCHANGED <<timerHook, effectActive, effectRuns, awaiting, intervals, heartbeatRef,
                   issued, otherThanTimer>>

\* subscribe callback, status TIMED_OUT (usePresence has a branch for it, in
\* useLiveSession the callback does nothing)
TimerTimedOut ==
    /\ effectActive
    /\ timerStatus = "joining"
    /\ timerStatus' = "timedOut"
    /\ UNCHANGED <<timerHook, effectActive, effectRuns, awaiting, intervals, heartbeatRef,
                   issued, otherThanTimer>>

\* the effect's cleanup (a dependency changed, or the component unmounts):
\* clearInterval on the ref's id when the ref is set, then channel.unsubscribe()
TimerCleanup ==
    /\ effectActive
    /\ effectActive' = FALSE
    /\ intervals' = IF heartbeatRef # None THEN intervals \ {heartbeatRef[1]} ELSE intervals
    /\ timerStatus' = "closed"
    /\ UNCHANGED <<timerHook, effectRuns, awaiting, heartbeatRef, issued, otherThanTimer>>

\* the effect runs again after its cleanup: a new channel is created and subscribed
TimerEffectRun ==
    /\ ~effectActive
    /\ effectRuns < MaxEffectRuns
    /\ effectActive' = TRUE
    /\ effectRuns' = effectRuns + 1
    /\ timerStatus' = "joining"
    /\ UNCHANGED <<timerHook, awaiting, intervals, heartbeatRef, issued, otherThanTimer>>

NextTimer ==
    \/ TimerSubscribed
    \/ TimerStart
    \/ TimerChannelError
    \/ TimerTimedOut
    \/ TimerCleanup
    \/ TimerEffectRun

SpecTimer == InitTimer /\ [][NextTimer]_vars

(***************************************************************************)
(* Specification of the offline briefing cache                             *)
(***************************************************************************)
CacheableDays == 1..MaxCacheDay

\* a CachedDay entry (cachedAt and size are not modelled)
CachedDay(day) == [day |-> day]

\* the days argument of cacheMultipleDays
DayLists == SeqsUpTo(CacheableDays, MaxBatch) \ {<<>>}

\* one step of the insertion behind Array.prototype.sort((a, b) => a.day - b.day)
RECURSIVE InsertByDay(_, _)
InsertByDay(sorted, e) ==
    IF sorted = <<>> THEN <<e>>
    ELSE IF e.day < sorted[1].day THEN <<e>> \o sorted
    ELSE <<sorted[1]>> \o InsertByDay(Tail(sorted), e)

\* updatedDays.sort((a, b) => a.day - b.day): stable, ascending by day
RECURSIVE SortByDay(_)
SortByDay(list) ==
    IF list = <<>> THEN <<>>
    ELSE InsertByDay(SortByDay(SubSeq(list, 1, Len(list) - 1)), list[Len(list)])

\* [...cachedDays.filter((d) => d.day !== day), newCachedDay] sorted
WithDay(list, day) ==
    SortByDay(Append(SelectSeq(list, LAMBDA d : d.day # day), CachedDay(day)))

\* cachedDays.filter((d) => d.day !== day)
WithoutDay(list, day) == SelectSeq(list, LAMBDA d : d.day # day)

\* after mount in a browser that has nothing stored
InitOffline ==
    /\ cachedDays = <<>>
    /\ localStore = None
    /\ batch = None
    /\ completed = None
    /\ IdleReadiness
    /\ IdleLevel
    /\ IdleMastery
    /\ IdleCalendar
    /\ IdleLive
    /\ IdleHook
    /\ IdleSweep
    /\ IdleContent
    /\ IdleIntel
    /\ IdleProgram
    /\ IdleTimer
    /\ IdleAward
    /\ IdleRelease
    /\ IdleLeaderboard

\* cacheDay(day) called by the component: the callback of the current render,
\* whose closure holds the current cachedDays; opened is whether caches.open resolved
CacheDay(day, opened) ==
    /\ batch = None
    /\ IF opened
       THEN /\ cachedDays' = WithDay(cachedDays, day)
            /\ localStore' = Some(WithDay(cachedDays, day))
       ELSE UNCHANGED <<cachedDays, localStore>>
    /\ completed' = None
    /\ UNCHANGED <<batch, otherThanOffline>>

\* uncacheDay(day) called by the component
UncacheDay(day) ==
    /\ batch = None
    /\ \E i \in 1..Len(cachedDays) : cachedDays[i].day = day
    /\ cachedDays' = WithoutDay(cachedDays, day)
    /\ localStore' = Some(WithoutDay(cachedDays, day))
    /\ completed' = None
    /\ UNCHANGED <<batch, otherThanOffline>>

\* clearAllCache() called by the component
clearAllCache ==
    /\ batch = None
    /\ cachedDays # <<>>
    /\ cachedDays' = <<>>
    /\ localStore' = Some(<<>>)
    /\ completed' = None
    /\ UNCHANGED <<batch, otherThanOffline>>

\* cacheMultipleDays(days) called by the component: the loop will call the
\* cacheDay of the render that created this callback, whose closure holds the
\* cachedDays of that render
CacheMultipleDays(days) ==
    /\ batch = None
    /\ batch' = Some([days |-> days, next |-> 1, closure |-> cachedDays,
                      before |-> cachedDays, allOpened |-> TRUE])
    /\ completed' = None
    /\ UNCHANGED <<cachedDays, localStore, otherThanOffline>>

\* one iteration of the loop: await cacheDay(day)
CacheNextDay(opened) ==
    /\ batch # None
    /\ batch[1].next <= Len(batch[1].days)
    /\ LET day == batch[1].days[batch[1].next]
       IN  IF opened
           THEN /\ cachedDays' = WithDay(batch[1].closure, day)
                /\ localStore' = Some(WithDay(batch[1].closure, day))
           ELSE UNCHANGED <<cachedDays, localStore>>
    /\ batch' = Some([batch[1] EXCEPT !.next = @ + 1,
                                      !.allOpened = @ /\ opened])
    /\ completed' = None
    /\ UNCHANGED otherThanOffline

\* the loop is over: setIsCaching(false), toast, return
CacheMultipleDaysReturns ==
    /\ batch # None
    /\ batch[1].next > Len(batch[1].days)
    /\ completed' = Some([days |-> batch[1].days, before |-> batch[1].before,
                          allOpened |-> batch[1].allOpened])
    /\ batch' = None
    /\ UNCHANGED <<cachedDays, localStore, otherThanOffline>>

NextOffline ==
    \/ \E day \in CacheableDays, opened \in BOOLEAN : CacheDay(day, opened)
    \/ \E day \in CacheableDays : UncacheDay(day)
    \/ clearAllCache
    \/ \E days \in DayLists : CacheMultipleDays(days)
    \/ \E opened \in BOOLEAN : CacheNextDay(opened)
    \/ CacheMultipleDaysReturns

SpecOffline == InitOffline /\ [][NextOffline]_vars

(***************************************************************************)
(* Specification of the recognition awards: two runs of the sweep on one   *)
(* participant_recognitions table                                          *)
(***************************************************************************)
Awardees == 1..MaxAwardees

\* two invocations of the recognition endpoint, which may overlap
SweepRuns == {"runA", "runB"}

AwardPairs == Awardees \X RECOGNITION_CODES

\* Array.from(set) / rows.map(...): the ids of a set in ascending order
RECURSIVE Ascending(_)
Ascending(S) ==
    IF S = {} THEN <<>>
    ELSE LET m == CHOOSE x \in S : \A y \in S : x <= y
         IN  <<m>> \o Ascending(S \ {m})

\* both runs have passed the secret check and fetched the recognition types
\* (all four codes are defined); the table is empty; each find* query returns
\* nobody or every participant
InitAward ==
    /\ qualifying \in [RECOGNITION_CODES -> {{}, Awardees}]
    /\ awardRows = [pair \in AwardPairs |-> 0]
    /\ runs = [r \in SweepRuns |->
                 [pc |-> "find", category |-> 1, queue |-> <<>>,
                  results |-> [code \in RECOGNITION_CODES |-> [found |-> 0, awarded |-> 0]]]]
    /\ IdleReadiness
    /\ IdleLevel
    /\ IdleMastery
    /\ IdleCalendar
    /\ IdleLive
    /\ IdleHook
    /\ IdleSweep
    /\ IdleContent
    /\ IdleIntel
    /\ IdleProgram
    /\ IdleTimer
    /\ IdleOffline
    /\ IdleRelease
    /\ IdleLeaderboard

\* the run's position after the candidate at the head of the queue is dealt with
NextCandidate(run) ==
    IF Len(run.queue) > 1
    THEN [run EXCEPT !.pc = "check", !.queue = Tail(@)]
    ELSE [run EXCEPT !.pc = "find", !.queue = <<>>, !.category = @ + 1]

\* a category block of GET up to its loop: find the candidates, set found
AwardFind(r) ==
    /\ runs[r].pc = "find"
    /\ runs[r].category <= Len(CategoryOrder)
    /\ LET code == CategoryOrder[runs[r].category]
           found == Ascending(qualifying[code])
       IN  runs' = [runs EXCEPT ![r] =
                      IF found = <<>>
                      THEN [@ EXCEPT !.category = @ + 1]
                      ELSE [@ EXCEPT !.pc = "check", !.queue = found,
                                     !.results[code].found = Len(found)]]
    /\ UNCHANGED <<qualifying, awardRows, otherThanAward>>

\* awardRecognition, the select with .single(): data is the row when exactly one
\* row matches and the query succeeds, else null; `if (existing) return false`
AwardCheck(r, selectFailed) ==
    /\ runs[r].pc = "check"
    /\ LET code == CategoryOrder[runs[r].category]
           pair == <<runs[r].queue[1], code>>
           existing == ~selectFailed /\ awardRows[pair] = 1
       IN  runs' = [runs EXCEPT ![r] =
                      IF existing THEN NextCandidate(@) ELSE [@ EXCEPT !.pc = "insert"]]
    /\ UNCHANGED <<qualifying, awardRows, otherThanAward>>

\* awardRecognition, the insert: return !error, counted in awarded by the loop
AwardInsert(r, inserted) ==
    /\ runs[r].pc = "insert"
    /\ LET code == CategoryOrder[runs[r].category]
           pair == <<runs[r].queue[1], code>>
       IN  IF inserted
           THEN /\ awardRows' = [awardRows EXCEPT ![pair] = @ + 1]
                /\ runs' = [runs EXCEPT ![r] =
                              NextCandidate([@ EXCEPT !.results[code].awarded = @ + 1])]
           ELSE /\ runs' = [runs EXCEPT ![r] = NextCandidate(@)]
                /\ UNCHANGED awardRows
    /\ UNCHANGED <<qualifying, otherThanAward>>

\* the summary is returned
AwardRespond(r) ==
    /\ runs[r].pc = "find"
    /\ runs[r].category > Len(CategoryOrder)
    /\ runs' = [runs EXCEPT ![r].pc = "done"]
    /\ UNCHANGED <<qualifying, awardRows, otherThanAward>>

NextAward ==
    \/ \E r \in SweepRuns : AwardFind(r)
    \/ \E r \in SweepRuns, selectFailed \in BOOLEAN : AwardCheck(r, selectFailed)
    \/ \E r \in SweepRuns, inserted \in BOOLEAN : AwardInsert(r, inserted)
    \/ \E r \in SweepRuns : AwardRespond(r)

SpecAward == InitAward /\ [][NextAward]_vars

(***************************************************************************)
(* Specification of the intel releases: admin page, table events and one   *)
(* subscribed client                                                       *)
(***************************************************************************)
DropIds == 1..MaxDrops

\* the targetings the edit form can save: none selected (null) or a selection
EditTargetings == {None, Some({"RHEIN"})}

\* the row of an id as an event's payload.new carries it
RowOf(id) ==
    [id |-> id, is_released |-> intelTable[id].state = "released",
     affected_task_forces |-> intelTable[id].affected_task_forces]

\* payload.old.is_released of an UPDATE: the old value when the table's replica
\* identity carries the row, undefined when it carries the primary key only
OldOf(before) == IF replicaFull THEN Some(before) ELSE None

\* a postgres_changes event of the intel-drops channel; was records what the
\* row's is_released was before the change
TableEvent(kind, newRow, before) ==
    [kind |-> kind, drops |-> {newRow}, old |-> OldOf(before), was |-> before]

\* a new_intel broadcast of the intel-releases channel
BroadcastEvent(released) ==
    [kind |-> "broadcast", drops |-> released, old |-> None, was |-> FALSE]

\* the drops a handler of the client passes to handleNewIntel
Handed(event) ==
    CASE event.kind = "UPDATE" ->
           {d \in event.drops : d.is_released /\ (event.old = None \/ ~event.old[1])}
      [] event.kind = "INSERT" -> {d \in event.drops : d.is_released}
      [] OTHER -> event.drops

\* the subscription of the UPDATE handler has the filter is_released=eq.true
PassesFilter(kind, newRow) == kind = "UPDATE" => newRow.is_released

\* the events the table change adds to the wire
Published(kind, newRow, before) ==
    IF PassesFilter(kind, newRow) THEN <<TableEvent(kind, newRow, before)>> ELSE <<>>

\* fetchIntelDrops: the admin list as the table is after the write
Fetched(table) == [id \in DropIds |-> table[id].state = "released"]

InitRelease ==
    /\ intelTable \in [DropIds -> [state : {"absent", "draft"}, affected_task_forces : {None}]]
    /\ replicaFull \in BOOLEAN
    /\ allIntelDrops = [id \in DropIds |-> FALSE]
    /\ wire = <<>>
    /\ clientTaskForce \in {None, Some("RHEIN")}
    /\ notified = [id \in DropIds |-> 0]
    /\ releasedTimes = [id \in DropIds |-> 0]
    /\ delivered = None
    /\ IdleReadiness
    /\ IdleLevel
    /\ IdleMastery
    /\ IdleCalendar
    /\ IdleLive
    /\ IdleHook
    /\ IdleSweep
    /\ IdleContent
    /\ IdleIntel
    /\ IdleProgram
    /\ IdleTimer
    /\ IdleOffline
    /\ IdleAward
    /\ IdleLeaderboard

\* a row is inserted (the rows are created outside the admin page)
InsertDrop(id, released, targeting) ==
    /\ intelTable[id].state = "absent"
    /\ Len(wire) < MaxInFlight
    /\ intelTable' = [intelTable EXCEPT ![id] =
                        [state |-> IF released THEN "released" ELSE "draft",
                         affected_task_forces |-> targeting]]
    /\ wire' = wire \o Published("INSERT",
                  [id |-> id, is_released |-> released, affected_task_forces |-> targeting], FALSE)
    /\ releasedTimes' = [releasedTimes EXCEPT ![id] = IF released THEN @ + 1 ELSE @]
    /\ UNCHANGED <<replicaFull, allIntelDrops, clientTaskForce, notified, delivered, otherThanRelease>>

\* handleRefresh of the admin page
handleRefresh ==
    /\ allIntelDrops # Fetched(intelTable)
    /\ allIntelDrops' = Fetched(intelTable)
    /\ UNCHANGED <<intelTable, replicaFull, wire, clientTaskForce, notified, releasedTimes, delivered, otherThanRelease>>

\* handleConfirmRelease: the dialog is offered for a drop the list shows unreleased
handleConfirmRelease(id) ==
    /\ intelTable[id].state # "absent"
    /\ ~allIntelDrops[id]
    /\ Len(wire) < MaxInFlight
    /\ LET before == intelTable[id].state = "released"
           table  == [intelTable EXCEPT ![id].state = "released"]
       IN  /\ intelTable' = table
           /\ wire' = wire \o Published("UPDATE",
                         [id |-> id, is_released |-> TRUE,
                          affected_task_forces |-> table[id].affected_task_forces], before)
           /\ releasedTimes' = [releasedTimes EXCEPT ![id] = IF before THEN @ ELSE @ + 1]
           /\ allIntelDrops' = Fetched(table)
    /\ UNCHANGED <<replicaFull, clientTaskForce, notified, delivered, otherThanRelease>>

\* handleSaveEdit: title, classification, content, targeting and trigger time
handleSaveEdit(id, targeting) ==
    /\ intelTable[id].state # "absent"
    /\ Len(wire) < MaxInFlight
    /\ notified[id] < MaxNotified
    /\ LET before == intelTable[id].state = "released"
           table  == [intelTable EXCEPT ![id].affected_task_forces = targeting]
       IN  /\ intelTable' = table
           /\ wire' = wire \o Published("UPDATE",
                         [id |-> id, is_released |-> before,
                          affected_task_forces |-> targeting], before)
           /\ allIntelDrops' = Fetched(table)
    /\ UNCHANGED <<replicaFull, clientTaskForce, notified, releasedTimes, delivered, otherThanRelease>>

\* the scheduled release: a draft is released and announced on intel-releases
CronRelease(id) ==
    /\ intelTable[id].state = "draft"
    /\ Len(wire) + 1 < MaxInFlight
    /\ LET table == [intelTable EXCEPT ![id].state = "released"]
           newRow == [id |-> id, is_released |-> TRUE,
                      affected_task_forces |-> table[id].affected_task_forces]
       IN  /\ intelTable' = table
           /\ wire' = wire \o Published("UPDATE", newRow, FALSE) \o <<BroadcastEvent({newRow})>>
    /\ releasedTimes' = [releasedTimes EXCEPT ![id] = @ + 1]
    /\ UNCHANGED <<replicaFull, allIntelDrops, clientTaskForce, notified, delivered, otherThanRelease>>

\* the client handles the next event: UPDATE, INSERT or broadcast handler
Deliver ==
    /\ wire # <<>>
    /\ LET event  == Head(wire)
           shown == handleNewIntel(Handed(event), clientTaskForce)
       IN  /\ notified' = [id \in DropIds |->
                             notified[id] + Cardinality({d \in shown : d.id = id})]
           /\ delivered' = Some([kind |-> event.kind, was |-> event.was, shown |-> shown])
    /\ wire' = Tail(wire)
    /\ UNCHANGED <<intelTable, replicaFull, allIntelDrops, clientTaskForce, releasedTimes, otherThanRelease>>

NextRelease ==
    \/ \E id \in DropIds, released \in BOOLEAN, targeting \in EditTargetings :
          InsertDrop(id, released, targeting)
    \/ handleRefresh
    \/ \E id \in DropIds : handleConfirmRelease(id)
    \/ \E id \in DropIds, targeting \in EditTargetings : handleSaveEdit(id, targeting)
    \/ \E id \in DropIds : CronRelease(id)
    \/ Deliver

SpecRelease == InitRelease /\ [][NextRelease]_vars

(***************************************************************************)
(* Specification of the leaderboard under realtime deltas                  *)
(***************************************************************************)
\* github_username values, by number
Usernames == 1..MaxUsers

\* a row of the leaderboard as payload.new carries it
LeaderboardView == [github_username : Usernames, total_points : 0..MaxPoints, rank : 1..MaxUsers]

\* the position of a username in a list, 0 when absent (the last one, as the
\* Map constructor keeps the value set last)
LastIndexOf(list, username) ==
    LET hits == {i \in 1..Len(list) : list[i].github_username = username}
    IN  IF hits = {} THEN 0 ELSE CHOOSE i \in hits : \A j \in hits : j <= i

FirstIndexOf(list, username) ==
    LET hits == {i \in 1..Len(list) : list[i].github_username = username}
    IN  IF hits = {} THEN 0 ELSE CHOOSE i \in hits : \A j \in hits : i <= j

\* Array.from(new Map(list.map(e => [e.github_username, e])).values()): one
\* entry per username at the place of its first occurrence, with its last value
MapValues(list) ==
    LET RECURSIVE From(_)
        From(i) ==
            IF i > Len(list) THEN <<>>
            ELSE IF FirstIndexOf(list, list[i].github_username) = i
                 THEN <<list[LastIndexOf(list, list[i].github_username)]>> \o From(i + 1)
                 ELSE From(i + 1)
    IN  From(1)

\* one step of the stable sort: entry goes behind the entries with at least its points
InsertByPoints(sorted, entry) ==
    LET ahead == {i \in 1..Len(sorted) : sorted[i].total_points >= entry.total_points}
        k     == IF ahead = {} THEN 0 ELSE CHOOSE i \in ahead : \A j \in ahead : j <= i
    IN  SubSeq(sorted, 1, k) \o <<entry>> \o SubSeq(sorted, k + 1, Len(sorted))

\* list.sort((a, b) => b.total_points - a.total_points), a stable sort
RECURSIVE SortByPoints(_)
SortByPoints(list) ==
    IF list = <<>> THEN <<>>
    ELSE InsertByPoints(SortByPoints(SubSeq(list, 1, Len(list) - 1)), list[Len(list)])

\* list.map((entry, index) => ({ ...entry, rank: index + 1 }))
Reranked(list) == [i \in 1..Len(list) |-> [list[i] EXCEPT !.rank = i]]

\* mergeDeltaUpdate without the sort
mergeDeltaUpdate_unsorted(existingData, updatedEntry) ==
    LET dataMap == MapValues(existingData)
        at      == LastIndexOf(dataMap, updatedEntry.github_username)
        updated == IF at # 0 THEN [dataMap EXCEPT ![at] = updatedEntry] ELSE dataMap
    IN  Reranked(updated)

\* mergeDeltaUpdate: payload.new carries every column, so the merge
\* { ...existing, ...updatedEntry } is the updated entry
mergeDeltaUpdate(existingData, updatedEntry) ==
    LET dataMap == MapValues(existingData)
        at      == LastIndexOf(dataMap, updatedEntry.github_username)
        updated == IF at # 0 THEN [dataMap EXCEPT ![at] = updatedEntry] ELSE dataMap
    IN  Reranked(SortByPoints(updated))

\* the lists the page passes as initialData: one entry per username, ordered
\* by points, ranked by position
InitialLists ==
    UNION {{Reranked(SortByPoints(order)) :
              order \in {o \in [1..Cardinality(names) ->
                                  [github_username : names, total_points : 0..MaxPoints, rank : {1}]] :
                            \A i, j \in 1..Cardinality(names) :
                               i # j => o[i].github_username # o[j].github_username}} :
           names \in SUBSET Usernames}

InitLeaderboard ==
    /\ data \in InitialLists
    /\ lastDelta = None
    /\ IdleReadiness
    /\ IdleLevel
    /\ IdleMastery
    /\ IdleCalendar
    /\ IdleLive
    /\ IdleHook
    /\ IdleSweep
    /\ IdleContent
    /\ IdleIntel
    /\ IdleProgram
    /\ IdleTimer
    /\ IdleOffline
    /\ IdleAward
    /\ IdleRelease

\* postgres_changes UPDATE
OnLeaderboardUpdate(updatedRecord) ==
    /\ data' = mergeDeltaUpdate(data, updatedRecord)
    /\ lastDelta' = Some([kind |-> "UPDATE", username |-> Some(updatedRecord.github_username),
                          prevData |-> data])
    /\ UNCHANGED otherThanLeaderboard

\* postgres_changes INSERT
OnLeaderboardInsert(newRecord) ==
    /\ LET exists == \E i \in 1..Len(data) : data[i].github_username = newRecord.github_username
       IN  data' = IF exists THEN data
                   ELSE Reranked(SortByPoints(Append(data, newRecord)))
    /\ lastDelta' = Some([kind |-> "INSERT", username |-> Some(newRecord.github_username),
                          prevData |-> data])
    /\ UNCHANGED otherThanLeaderboard

\* postgres_changes DELETE; username is payload.old.github_username, None
\* when the old record does not carry the column
OnLeaderboardDelete(username) ==
    /\ data' = Reranked(SelectSeq(data, LAMBDA e : Some(e.github_username) # username))
    /\ lastDelta' = Some([kind |-> "DELETE", username |-> username, prevData |-> data])
    /\ UNCHANGED otherThanLeaderboard

NextLeaderboard ==
    \/ \E updatedRecord \in LeaderboardView : OnLeaderboardUpdate(updatedRecord)
    \/ \E newRecord \in LeaderboardView : OnLeaderboardInsert(newRecord)
    \/ \E username \in {None} \cup {Some(u) : u \in Usernames} : OnLeaderboardDelete(username)

SpecLeaderboard == InitLeaderboard /\ [][NextLeaderboard]_vars

(***************************************************************************)
(* Readiness engine: properties                                            *)
(***************************************************************************)
\* the result of the call, once made
Res == result[1]

\* r is num/den rounded to the nearest integer, halves upward (den > 0)
IsRounded(r, num, den) ==
    /\ 2 * den * r <= 2 * num + den
    /\ 2 * num + den < 2 * den * (r + 1)

\* sum of the mastery levels of the members at the positions in idx
RECURSIVE LevelSum(_, _)
LevelSum(ms, idx) ==
    IF idx = {} THEN 0
    ELSE LET i == CHOOSE j \in idx : TRUE
         IN  ms[i].mastery_level + LevelSum(ms, idx \ {i})

PositionsOf(ms, role) == {i \in 1..Len(ms) : ms[i].role = role}

C7_EmptyIsZeroed ==
    (result # None /\ members = <<>>) =>
        /\ Res.overallReadiness = 0
        /\ Res.totalMembers = 0
        /\ Res.roleBreakdown = <<>>
        /\ Res.trend = "stable"
        /\ Res.trendValue = 0
        /\ Res.isOnTrack = FALSE
        /\ Res.lowestRole = NULL
        /\ Res.highestRole = NULL

\* the empty list evaluated before the program start with a previous value supplied
C7_Witness ==
    /\ result # None
    /\ members = <<>>
    /\ previousReadiness = Some(50)
    /\ getCurrentProgramDay(diffDays) = 0

\* C8 as stated: for every result isOnTrack is true exactly when
\* overallReadiness >= targetReadiness.
C8_Original ==
    result # None => (Res.isOnTrack <=> Res.overallReadiness >= Res.targetReadiness)

\* C8 amended: isOnTrack is true exactly when the member list is non-empty
\* and overallReadiness >= targetReadiness; the empty list is never on track,
\* also when the target is 0.
C8_OnTrack ==
    result # None =>
        (Res.isOnTrack <=> (members # <<>> /\ Res.overallReadiness >= Res.targetReadiness))

\* a non-empty list exactly on its positive target
C8_Witness ==
    /\ result # None
    /\ members # <<>>
    /\ Res.targetReadiness = 50
    /\ Res.overallReadiness = 50
    /\ Res.isOnTrack

\* trend label that belongs to a trend value
TrendOf(v) == IF v > 0 THEN "up" ELSE IF v < 0 THEN "down" ELSE "stable"

\* C9 as stated: whenever previousReadiness is supplied, trendValue is
\* overallReadiness - previousReadiness with the matching trend, for any member
\* list; otherwise the trend is stable with value 0.
C9_Original ==
    result # None =>
        IF previousReadiness # None
        THEN /\ Res.trendValue = Res.overallReadiness - previousReadiness[1]
             /\ Res.trend = TrendOf(Res.trendValue)
        ELSE Res.trend = "stable" /\ Res.trendValue = 0

\* C9 amended: for a non-empty member list with previousReadiness supplied,
\* trendValue is overallReadiness - previousReadiness with the matching trend;
\* when previousReadiness is not supplied or the list is empty the trend is
\* stable with value 0.
C9_Trend ==
    result # None =>
        IF previousReadiness # None /\ members # <<>>
        THEN /\ Res.trendValue = Res.overallReadiness - previousReadiness[1]
             /\ Res.trend = TrendOf(Res.trendValue)
        ELSE Res.trend = "stable" /\ Res.trendValue = 0

\* a non-empty list that fell from 50 to 25
C9_Witness ==
    /\ result # None
    /\ members # <<>>
    /\ previousReadiness = Some(50)
    /\ Res.trend = "down"
    /\ Res.trendValue = -25

RECURSIVE CountSum(_)
CountSum(rb) == IF rb = <<>> THEN 0 ELSE rb[1].count + CountSum(Tail(rb))

Rec == record[1]

\* a result is null or names a level strictly above the record's
StrictlyAbove(levelUp, m) ==
    levelUp = None \/ levelUp[1].newLevel > m.mastery_level

\* C3: calculateNewLevel, in the cron route and in the useMastery hook,
\* returns null or a newLevel strictly greater than the record's current
\* mastery_level.
C3_NeverLowerOrEqual ==
    /\ cronLevelUp # None => StrictlyAbove(cronLevelUp[1], Rec)
    /\ hookLevelUp # None => StrictlyAbove(hookLevelUp[1], Rec)

\* a level-3 record that both evaluators raise to 4, its level-3 thresholds met as well
C3_Witness ==
    /\ cronLevelUp # None
    /\ hookLevelUp # None
    /\ Rec.mastery_level = 3
    /\ cronLevelUp[1] # None
    /\ hookLevelUp[1] # None
    /\ cronLevelUp[1][1].newLevel = 4
    /\ hookLevelUp[1][1].newLevel = 4

\* the thresholds of a level as the claim lists them
ThresholdsMet(level, m) ==
    CASE level = 4 -> /\ m.days_completed >= 20
                      /\ m.artifacts_submitted >= 3
                      /\ m.peer_assists_given >= 2
      [] level = 3 -> /\ m.days_completed >= 10
                      /\ m.artifacts_submitted >= 1
      [] level = 2 -> /\ m.days_completed >= 3
                      /\ m.ai_tutor_sessions >= 1

ClearanceLabel(level) ==
    CASE level = 4 -> "SPECIALIST"
      [] level = 3 -> "FIELD_READY"
      [] level = 2 -> "FIELD_TRAINEE"

\* the first of 4, 3, 2 that is above the current level with its thresholds met
ExpectedLevelUp(m) ==
    LET eligible == {l \in {2, 3, 4} : l > m.mastery_level /\ ThresholdsMet(l, m)}
    IN  IF eligible = {} THEN None
        ELSE LET first == CHOOSE l \in eligible : \A k \in eligible : k <= l
             IN  Some([newLevel |-> first, newClearance |-> ClearanceLabel(first)])

\* C4: calculateNewLevel returns the first of the levels 4, 3, 2 that is above
\* the current level and has all its thresholds met, with that level's
\* clearance, and null when there is none.
C4_FirstSatisfiedLevel ==
    /\ cronLevelUp # None => cronLevelUp[1] = ExpectedLevelUp(Rec)
    /\ hookLevelUp # None => hookLevelUp[1] = ExpectedLevelUp(Rec)

\* a level-1 record meeting the thresholds of levels 2 and 3 but not 4 goes to 3
C4_Witness ==
    /\ cronLevelUp # None
    /\ hookLevelUp # None
    /\ Rec.mastery_level = 1
    /\ ThresholdsMet(2, Rec)
    /\ ThresholdsMet(3, Rec)
    /\ ~ThresholdsMet(4, Rec)
    /\ cronLevelUp[1] = Some([newLevel |-> 3, newClearance |-> "FIELD_READY"])
    /\ hookLevelUp[1] = Some([newLevel |-> 3, newClearance |-> "FIELD_READY"])

(***************************************************************************)
(* Applying a level-up: properties                                         *)
(***************************************************************************)
\* C5: applying a level-up is idempotent under any interleaving of the tabs'
\* and the sweep's read-evaluate-write steps: once level-ups have been
\* written, the stored mastery_level and clearance are those a single
\* application (the highest level-up written) leaves, and evaluating the
\* record of that application again at the stored level returns null.
C5_IdempotentLevelUp ==
    applied # None =>
        /\ Row.mastery_level = applied[1].newLevel
        /\ Row.clearance = applied[1].newClearance
        /\ calculateNewLevel(
             [applied[1].record EXCEPT !.mastery_level = Row.mastery_level]) = None
        /\ useMastery_calculateNewLevel(
             [applied[1].record EXCEPT !.mastery_level = Row.mastery_level]) = None

(***************************************************************************)
(* Live session: properties                                                *)
(***************************************************************************)
\* C1: right after the student invokes rejoinSync, or toggleSync while sync is
\* paused, localStep and localSection equal the instructor's current step and
\* section as the view holds them, and sync is no longer paused.
C1_RejoinConverges ==
    lastAction \in {"rejoinSync", "resumeSync"} =>
        /\ localStep = instructorStep
        /\ localSection = instructorSection
        /\ ~isSyncPaused

\* C2: whenever sync is not paused, localStep and localSection equal the step
\* and section of the session state the student client holds.
C2_MirrorsUnlessPaused ==
    (Mounted /\ ~isSyncPaused /\ sessionState # None) =>
        /\ localStep = sessionState[1].currentStep
        /\ localSection = sessionState[1].currentSection

(***************************************************************************)
(* Program calendar: properties                                            *)
(***************************************************************************)
\* the plateau the documented schedule assigns to a day number
Plateau(d) ==
    IF d <= 0 THEN 0
    ELSE IF d \in 1..3 THEN 25
    ELSE IF d \in 4..10 THEN 50
    ELSE IF d \in 11..20 THEN 75
    ELSE 100

\* C11: getExpectedReadiness is a non-decreasing step function of the program
\* day with exactly the plateaus 0 (day <= 0), 25 (days 1-3), 50 (days 4-10),
\* 75 (days 11-20) and 100 (day >= 21), so day 15 gives 75; and the day
\* returned by getCurrentProgramDay lies within 0..25.
C11_ExpectedReadiness ==
    /\ today # None => today[1] \in 0..PROGRAM_DAYS
    /\ expected # None =>
         LET d == expected[1].programDay
             t == expected[1].target
         IN  /\ t = Plateau(d)
             /\ d = 15 => t = 75
             /\ \A e \in ClockRange : e <= d => getExpectedReadiness(e) <= t

\* program day 15, reached through the clock, was given its target
C11_Witness ==
    /\ today = Some(15)
    /\ expected = Some([programDay |-> 15, target |-> 75])

(***************************************************************************)
(* Mastery threshold evaluator: the first level-up                         *)
(***************************************************************************)
\* C12: a record at mastery_level 1 whose counters meet the level-2 thresholds
\* (days_completed >= 3 and ai_tutor_sessions >= 1) but not those of level 3
\* or 4 is raised by both evaluators to exactly level 2 with clearance
\* FIELD_TRAINEE.
C12_LevelTwo ==
    (/\ Rec.mastery_level = 1
     /\ Rec.days_completed >= 3
     /\ Rec.ai_tutor_sessions >= 1
     /\ ~ThresholdsMet(3, Rec)
     /\ ~ThresholdsMet(4, Rec))
    => /\ cronLevelUp # None =>
            cronLevelUp[1] = Some([newLevel |-> 2, newClearance |-> "FIELD_TRAINEE"])
       /\ hookLevelUp # None =>
            hookLevelUp[1] = Some([newLevel |-> 2, newClearance |-> "FIELD_TRAINEE"])

\* days_completed = 3, ai_tutor_sessions = 1, mastery_level = 1, evaluated by both
C12_Witness ==
    /\ Rec.mastery_level = 1
    /\ Rec.days_completed = 3
    /\ Rec.ai_tutor_sessions = 1
    /\ Rec.artifacts_submitted = 0
    /\ cronLevelUp = Some(Some([newLevel |-> 2, newClearance |-> "FIELD_TRAINEE"]))
    /\ hookLevelUp = Some(Some([newLevel |-> 2, newClearance |-> "FIELD_TRAINEE"]))

(***************************************************************************)
(* Live session: the end of the session                                    *)
(***************************************************************************)
\* the mounted view has observed the end of the session: every observation (a
\* session_end broadcast, a fetched or a received state with isActive false)
\* calls onSessionEnd, which leaves the page
EndObserved == view = "leaving"

\* C13: ended is terminal: once the student client has observed the session
\* end, its sessionState.isActive is not true again, whatever is received later.
C13_EndedIsTerminal ==
    EndObserved => (sessionState = None \/ ~sessionState[1].isActive)

(***************************************************************************)
(* Live session hook: properties                                           *)
(***************************************************************************)
\* the current channel has not reached SUBSCRIBED
NotYetSubscribed == hookStatus \in {"joining", "failed"}

\* C14: single writer: sendStateUpdate called by a client that is not the
\* instructor, or whose channel is not yet SUBSCRIBED, sends no broadcast and
\* leaves the client's sessionState unchanged; a state_update is only ever
\* sent by the instructor's client.
C14_SingleWriter ==
    [][/\ (hookOp' = "sendStateUpdate" /\ (~isInstructor \/ NotYetSubscribed))
          => (outbox' = None /\ hookSessionState' = hookSessionState)
       /\ outbox' = Some("state_update") => isInstructor]_vars

\* a student with a joined channel and a session state has called sendStateUpdate
C14_Witness ==
    /\ hookOp = "sendStateUpdate"
    /\ ~isInstructor
    /\ hookStatus = "subscribed"
    /\ hookSessionState # None
    /\ outbox = None

\* C15: heartbeats are advisory: receiving one changes neither sessionState
\* nor the participants list of the receiving client; at most it sets
\* isConnected to true, on a client that is not the instructor and for a
\* heartbeat sent by the instructor.
C15_HeartbeatAdvisory ==
    [][hookOp' \in {"onInstructorHeartbeat", "onStudentHeartbeat"}
       => /\ hookSessionState' = hookSessionState
          /\ participants' = participants
          /\ hookConnected' # hookConnected
             => (hookConnected' /\ ~isInstructor /\ hookOp' = "onInstructorHeartbeat")]_vars

\* a student holding a session state and participants has received the instructor's heartbeat
C15_Witness ==
    /\ hookOp = "onInstructorHeartbeat"
    /\ ~isInstructor
    /\ hookSessionState # None
    /\ participants # <<>>
    /\ hookConnected

(***************************************************************************)
(* Scheduled sweeps: properties                                            *)
(***************************************************************************)
\* the request carries 'Bearer <shared secret>'
Authentic == Truthy(cronSecret) /\ authHeader = Some(Bearer(cronSecret[1]))

\* C16: both sweep endpoints are bearer-token authenticated: a sweep runs only
\* for a request whose Authorization header equals 'Bearer <shared secret>';
\* every other request is answered 401 and no row is read or modified.
C16_BearerAuthenticated ==
    (sweepPc # "idle" /\ ~Authentic)
    => /\ response # None
       /\ response[1].status = 401
       /\ touched = "none"

\* the record at position i of the fetched list qualifies for a level-up
Qualifies(i) == calculateNewLevel(masteryRecords[1][i]) # None

\* C17: the mastery sweep reports partial success: a failed update does not
\* stop the sweep; processed is the number of records fetched, updated the
\* number of level-up writes that succeeded (so updated <= processed), the
\* updates list names exactly those records, and each of them is stored at its
\* new level.
C17_PartialSuccess ==
    (endpoint = "mastery" /\ response # None /\ response[1].status = 200)
    => LET fetched == masteryRecords[1]
           written == {i \in 1..Len(fetched) : Qualifies(i) /\ i \notin failedUpdates}
           summary == response[1]
       IN  /\ summary.processed = Len(fetched)
           /\ summary.updated = Cardinality(written)
           /\ summary.updated <= summary.processed
           /\ Len(summary.updates) = summary.updated
           /\ {summary.updates[k].participantId : k \in 1..Len(summary.updates)} = written
           /\ \A i \in written :
                participantMastery[i].mastery_level
                  = calculateNewLevel(fetched[i])[1].newLevel
           /\ \A i \in failedUpdates : participantMastery[i] = fetched[i]

\* the update of the first record failed and the second one was still written
C17_Witness ==
    /\ endpoint = "mastery"
    /\ response # None
    /\ response[1].status = 200
    /\ failedUpdates = {1}
    /\ response[1].processed = 2
    /\ response[1].updated = 1
    /\ response[1].updates[1].participantId = 2

(***************************************************************************)
(* Content route: properties                                               *)
(***************************************************************************)
\* the last request missed the cache and has been answered from the sources
LookedUp == contentPc = "idle" /\ offered # None

\* C18: on a cache miss the sources are consulted in the order local, GitHub,
\* database and the answer comes from the first one that has the situation
\* text: source 'local' whenever local has it, 'github' only when local has
\* none, 'database' only when neither has any, 404 only when all three have none.
C18_FirstSourceWins ==
    LookedUp =>
      LET src == offered[1]
          hasDatabase == src.database = "text"
          answer == contentResponse[1]
      IN  /\ src.local => (answer.status = 200 /\ answer.body.source = "local")
          /\ (~src.local /\ src.github)
               => (answer.status = 200 /\ answer.body.source = "github")
          /\ (~src.local /\ ~src.github /\ hasDatabase)
               => (answer.status = 200 /\ answer.body.source = "database")
          /\ answer.status = 200 => answer.body.situation # None
          /\ answer.status = 404 => (~src.local /\ ~src.github /\ ~hasDatabase)
          /\ consulted \in {<<"local">>, <<"local", "github">>,
                            <<"local", "github", "database">>}

\* an entry stored less than five minutes ago
WithinTtl(entry) == entry # None /\ entry[1].age < 5

\* the step is the handling of a request up to the cache check
RequestStep ==
    /\ contentPc = "idle"
    /\ contentCache' = contentCache
    /\ contentRequest' # None

\* the step is the lookup of the sources after a miss
LookupStep == contentPc = "lookup" /\ contentPc' = "idle"

\* C19: the content cache is a TTL cache keyed by (day, admin flag): a request
\* less than 5 minutes after the entry of its day and flag was stored is
\* answered with that entry's data marked cached: true and consults no source;
\* with no entry, or one 5 minutes old or older, the sources are consulted and,
\* when content is found, the entry is replaced with a fresh timestamp; answers
\* 400 and 404 are never stored.
C19_TtlCache ==
    [][/\ (RequestStep /\ ~InvalidDay(contentRequest'[1].id))
          => LET key == cacheKey(contentRequest'[1].id[1], contentRequest'[1].isAdmin)
                 entry == contentCache[key]
             IN  IF WithinTtl(entry)
                 THEN /\ contentPc' = "idle"
                      /\ contentResponse'
                           = Some([status |-> 200,
                                   body |-> [entry[1].data EXCEPT !.cached = TRUE]])
                      /\ consulted' = <<>>
                 ELSE contentPc' = "lookup"
       /\ LookupStep
          => LET key == cacheKey(contentRequest[1].id[1], contentRequest[1].isAdmin)
                 answer == contentResponse'[1]
             IN  /\ consulted' # <<>>
                 /\ answer.status \in {200, 404}
                 /\ answer.status = 200
                      => /\ ~answer.body.cached
                         /\ contentCache' =
                              [contentCache EXCEPT ![key] =
                                  Some([data |-> answer.body, age |-> 0])]
                 /\ answer.status = 404 => contentCache' = contentCache
       /\ (contentResponse' # None /\ contentResponse'[1].status \in {400, 404})
          => (contentCache' = contentCache \/ contentResponse' = contentResponse)]_vars

\* a request four minutes after the entry was stored was answered from the cache,
\* although the entry of the same day for the other kind of user has expired
C19_Witness ==
    /\ contentPc = "idle"
    /\ contentRequest = Some([id |-> Some(1), isAdmin |-> TRUE])
    /\ contentResponse # None
    /\ contentResponse[1].status = 200
    /\ contentResponse[1].body.cached
    /\ consulted = <<>>
    /\ contentCache[cacheKey(1, TRUE)] # None
    /\ contentCache[cacheKey(1, TRUE)][1].age = 4
    /\ contentCache[cacheKey(1, FALSE)] # None
    /\ contentCache[cacheKey(1, FALSE)][1].age = 5

(***************************************************************************)
(* Intel-drop notification: properties                                     *)
(***************************************************************************)
\* the drop names no task force
Untargeted(d) == d.affected_task_forces = None \/ d.affected_task_forces[1] = {}

\* C20: a user is notified of a released drop handed to handleNewIntel if and
\* only if the drop has no affected_task_forces (null or empty) or the user's
\* task force is in the list; a user with no task force is notified only of
\* untargeted drops.
C20_TargetedByTeam ==
    /\ toasts \subseteq handed
    /\ \A d \in handed :
         d \in toasts <=> \/ Untargeted(d)
                          \/ /\ userTaskForce # None
                             /\ userTaskForce[1] \in d.affected_task_forces[1]
    /\ userTaskForce = None => \A d \in toasts : Untargeted(d)

\* one broadcast released a drop for the user's task force, which was notified,
\* and one for another task force, which was not
C20_Witness ==
    /\ intelEvent = "broadcast"
    /\ userTaskForce = Some("LYON")
    /\ \E d \in toasts : d.affected_task_forces = Some({"RHEIN", "LYON"})
    /\ \E d \in handed \ toasts : d.affected_task_forces = Some({"MILAN"})

(***************************************************************************)
(* Program-wide aggregate: properties                                      *)
(***************************************************************************)
Prog == program[1]

RECURSIVE TeamSizes(_)
TeamSizes(ts) == IF ts = <<>> THEN 0 ELSE Len(ts[1]) + TeamSizes(Tail(ts))

\* C21: for every list of task-force results, the empty list and lists whose
\* task forces all have no members included, the aggregate's overallReadiness
\* is an integer in 0..100, totalParticipants is the sum of the team sizes, and
\* on-track plus at-risk is the number of task forces.
C21_NoErrorStates ==
    program # None =>
        /\ Prog.overallReadiness # NaN
        /\ Prog.overallReadiness[1] \in 0..100
        /\ Prog.totalParticipants = TeamSizes(teams)
        /\ Prog.taskForcesOnTrack + Prog.taskForcesAtRisk = Len(teams)

(***************************************************************************)
(* Stored mastery level: properties                                        *)
(***************************************************************************)
\* C22: under any interleaving of the sweep's and the tabs' read-evaluate-write
\* steps with counters that only grow, every write to the participant_mastery
\* row leaves a mastery_level at least the level stored just before the write.
C22_LevelNeverDecreases ==
    [][row'[1].mastery_level >= row[1].mastery_level]_vars

(***************************************************************************)
(* Live-session hook: partial updates                                      *)
(***************************************************************************)
StateFields == {"currentStep", "currentSection", "isActive"}

StateDefaults == [currentStep |-> 1, currentSection |-> "briefing", isActive |-> TRUE]

\* C23: when a client handles a state_update, every field the payload does not
\* carry keeps the value of the session state the client held just before
\* (the one the most recent update or fetch produced), every field it carries
\* takes the payload's value, and the defaults step 1, section 'briefing',
\* active true fill absent fields only when no state has been set yet.
C23_PartialUpdate ==
    [][received' # None =>
         \A f \in StateFields :
            hookSessionState'[1][f] =
               IF received'[1][f] # None THEN received'[1][f][1]
               ELSE IF hookSessionState # None THEN hookSessionState[1][f]
               ELSE StateDefaults[f]]_vars

(***************************************************************************)
(* Heartbeat timers: properties                                            *)
(***************************************************************************)
\* C24: in both hooks and for any interleaving of SUBSCRIBED callbacks (with
\* their await before setInterval), repeated SUBSCRIBED statuses, effect
\* re-runs and cleanup, at most one heartbeat interval is active per hook
\* instance, and none is active once the cleanup has unsubscribed the channel.
C24_TimersBounded ==
    /\ Cardinality(intervals) <= 1
    /\ ~effectActive => intervals = {}

(***************************************************************************)
(* Offline briefing cache: properties                                      *)
(***************************************************************************)
\* isCached(day)
isCached(day) == \E i \in 1..Len(cachedDays) : cachedDays[i].day = day

\* C25: when cacheMultipleDays(days) has returned and every cacheDay of it
\* succeeded, every day of days is recorded in cachedDays, the days recorded
\* before the call still are, cachedDays has one entry per day in ascending
\* order, and the list in localStorage equals cachedDays.
C25_CachesAllDays ==
    (completed # None /\ completed[1].allOpened) =>
        /\ \A i \in 1..Len(completed[1].days) : isCached(completed[1].days[i])
        /\ \A i \in 1..Len(completed[1].before) : isCached(completed[1].before[i].day)
        /\ \A i, j \in 1..Len(cachedDays) : i < j => cachedDays[i].day < cachedDays[j].day
        /\ localStore = Some(cachedDays)

(***************************************************************************)
(* Content route: mentor notes                                             *)
(***************************************************************************)
\* the last request came from a user who is not an admin and has been answered
NonAdminAnswered ==
    /\ contentPc = "idle"
    /\ contentRequest # None
    /\ ~contentRequest[1].isAdmin
    /\ contentResponse # None

\* C26: whatever requests admins and non-admins made before and whatever the
\* cache holds, the response to a request of a user who is not an admin
\* carries mentorNotes null and is the response the same request gets in the
\* run where the admin requests are left out.
C26_MentorNotesConfined ==
    NonAdminAnswered =>
        /\ contentResponse[1].status = 200 => contentResponse[1].body.mentorNotes = None
        /\ contentResponse = soloResponse

\* a non-admin is answered from the cache for day 1 while the cache holds a
\* fresh admin entry for the same day that carries the mentor notes
C26_Witness ==
    /\ NonAdminAnswered
    /\ contentRequest[1].id = Some(1)
    /\ contentResponse[1].status = 200
    /\ contentResponse[1].body.cached
    /\ contentCache[cacheKey(1, TRUE)] # None
    /\ contentCache[cacheKey(1, TRUE)][1].age < CACHE_TTL
    /\ contentCache[cacheKey(1, TRUE)][1].data.mentorNotes # None

(***************************************************************************)
(* Evaluator: the two copies                                               *)
(***************************************************************************)
\* C27: for every mastery record (levels 1..4, counters from 0 up) the
\* calculateNewLevel of the cron route and the calculateNewLevel of the
\* useMastery hook return the same result: both null, or the same newLevel
\* and newClearance.
C27_EvaluatorsAgree ==
    (cronLevelUp # None /\ hookLevelUp # None) => cronLevelUp[1] = hookLevelUp[1]

\* both copies have moved a level-2 record with 10 days and one artifact to level 3
C27_Witness ==
    /\ cronLevelUp = Some(Some([newLevel |-> 3, newClearance |-> "FIELD_READY"]))
    /\ hookLevelUp = Some(Some([newLevel |-> 3, newClearance |-> "FIELD_READY"]))
    /\ Rec.mastery_level = 2
    /\ Rec.days_completed = 10
    /\ Rec.artifacts_submitted = 1

(***************************************************************************)
(* Recognition awards: properties                                          *)
(***************************************************************************)
\* C28: after any sequence or interleaving of recognition sweeps the table
\* holds at most one row per (participant, recognition type), and in each
\* sweep's summary a category's awarded count is at most its found count.
C28_AwardedOnce ==
    /\ \A pair \in AwardPairs : awardRows[pair] <= 1
    /\ \A r \in SweepRuns, code \in RECOGNITION_CODES :
          runs[r].results[code].awarded <= runs[r].results[code].found

(***************************************************************************)
(* Intel releases: properties                                              *)
(***************************************************************************)
\* an UPDATE event of a drop that was released before the update has been handled
EditOfReleasedHandled ==
    /\ delivered # None
    /\ delivered[1].kind = "UPDATE"
    /\ delivered[1].was

\* C29: the client is notified of a drop only when it is newly released: the
\* handling of an UPDATE event of a drop that was already released notifies
\* nothing, and over both channels the client shows at most one notification
\* per release of a drop.
C29_NotifiedOncePerRelease ==
    /\ EditOfReleasedHandled => delivered[1].shown = {}
    /\ \A id \in DropIds : notified[id] <= releasedTimes[id]

(***************************************************************************)
(* Leaderboard: properties                                                 *)
(***************************************************************************)
NamesOf(list) == {list[i].github_username : i \in 1..Len(list)}

\* C30: after any sequence of UPDATE, INSERT and DELETE events no two
\* entries share a github_username, the ranks are 1..n in list order and the
\* entries are ordered by total_points descending; an UPDATE for a username
\* that is not in the list adds no entry, and an INSERT for a username that
\* is in the list changes nothing.
C30_ConsistentRanking ==
    /\ \A i, j \in 1..Len(data) : i # j => data[i].github_username # data[j].github_username
    /\ \A i \in 1..Len(data) : data[i].rank = i
    /\ \A i, j \in 1..Len(data) : i < j => data[i].total_points >= data[j].total_points
    /\ lastDelta # None =>
          LET delta   == lastDelta[1]
              present == delta.username[1] \in NamesOf(delta.prevData)
          IN  /\ (delta.kind = "UPDATE" /\ ~present) => NamesOf(data) = NamesOf(delta.prevData)
              /\ (delta.kind = "INSERT" /\ present) => data = delta.prevData

\* an UPDATE has moved an entry from further down to the top of a list of
\* several entries
C30_Witness ==
    /\ lastDelta # None
    /\ lastDelta[1].kind = "UPDATE"
    /\ Len(data) >= 2
    /\ Len(lastDelta[1].prevData) = Len(data)
    /\ data[1].github_username = lastDelta[1].username[1]
    /\ lastDelta[1].prevData[1].github_username # lastDelta[1].username[1]

====
